---- MODULE Spec2Model ----
(***************************************************************************)
(* A model of go.e43.eu/xdr: the tag layer (internal/tags), the codec      *)
(* builders and the registry (internal/coder.Coder), and the wire layer    *)
(* (encoder / decoder).                                                    *)
(*                                                                         *)
(* Conventions.  A uint32 is carried as the signed 32-bit integer with the *)
(* same bit pattern (so 0x80000000..0xFFFFFFFF are the negative numbers);  *)
(* unsigned comparisons go through ULess.  Bytes are 0..255.               *)
(***************************************************************************)
EXTENDS Integers, Sequences, FiniteSets, TLC

VARIABLES
    host,          \* "32" or "64": the width of Go's int on the build's platform
    nounsafe,      \* the build tag: TRUE for a `nounsafe` build
    planOf,        \* what buildCodec does for each xType on this platform, tabulated
    knownCodecs,   \* Coder.knownCodecs: xType -> codec
    knownBaseCodecs, \* Coder.knownBaseCodecs: reflect.Type -> codec
    dcReal,        \* deferredCodec.real, per installed placeholder
    dcWg,          \* deferredCodec.wg counter, per installed placeholder
    pc,            \* per thread: position in the running operation
    call,          \* per thread: the xType being looked up
    stack,         \* per thread: the getNewCodec / buildCodec activations
    op,            \* per thread: the running top-level operation
    ret,           \* per thread: what the last top-level operation produced
    cur,           \* per thread: the codec whose Encode/Decode is running
    ops,           \* number of top-level operations started so far
    hist,          \* ghost: constructions started and codecs returned per key, roots looked up
    crashed,       \* an unrecovered panic ended the process
    wtype,         \* wire run: the Go type of the value
    wval,          \* wire run: the value to encode
    wphase,        \* wire run: position
    wout,          \* wire run: bytes written to the sink and the error returned
    wsrc,          \* wire run: the bytes of the source to decode from
    wdec,          \* wire run: result of the decode
    wdst,          \* wire run: the value at the destination before the decode
    strm,          \* streaming read: the decoder's source and the opaqueReader on it
    tagp,          \* tag parsing: a field type, two tag texts and what ParseTag made of them
    encp           \* the encoder pool: its encoders, their inline caches, the registries

\* ------------------------------------------------------------------------
\* 32-bit words and bytes
\* ------------------------------------------------------------------------

\* unsigned "a < b" on two 32-bit patterns
\* Body of v, with v written once
With(v, Body(_)) == Body(v)

ULess(a, b) ==
    IF (a < 0) = (b < 0) THEN a < b ELSE b < 0

ULeq(a, b) == a = b \/ ULess(a, b)

\* byte(i >> 24), byte(i >> 16), byte(i >> 8), byte(i)
WordBytes(i) ==
    << (i \div 16777216) % 256, (i \div 65536) % 256, (i \div 256) % 256, i % 256 >>

\* uint32(b[0])<<24 | uint32(b[1])<<16 | uint32(b[2])<<8 | uint32(b[3])
BytesWord(b) ==
    (IF b[1] >= 128 THEN b[1] - 256 ELSE b[1]) * 16777216
        + b[2] * 65536 + b[3] * 256 + b[4]

\* ^uint32(0)
MaxUint32 == -1

SeqTake(s, n) == SubSeq(s, 1, IF n < Len(s) THEN n ELSE Len(s))
SeqDrop(s, n) == SubSeq(s, (IF n < Len(s) THEN n ELSE Len(s)) + 1, Len(s))

RECURSIVE Zeros(_)
Zeros(n) == IF n <= 0 THEN << >> ELSE <<0>> \o Zeros(n - 1)

\* ------------------------------------------------------------------------
\* internal/tags: XDRTag is a byte sequence
\* ------------------------------------------------------------------------

Noop == 0
Skip == 1
Opt == 2
Opaque == 3
UnionSwitch == 4
UnionDefault == 5
LenK == 134
MaxLenK == 135
UnionCases == 200

emptyTag == << >>
skipTag == <<Skip>>

Empty(t) == Len(t) = 0

Kind(t) == IF Len(t) > 0 THEN t[1] ELSE Noop

valAt(t, offs) == BytesWord(SubSeq(t, offs + 1, offs + 4))

thisLen(t) ==
    IF Len(t) = 0 THEN 0
    ELSE IF t[1] < 128 THEN 1
    ELSE IF t[1] < 192 THEN 5
    ELSE 5 + valAt(t, 1) * 4

NextTag(t) ==
    IF Len(t) = thisLen(t) THEN << >> ELSE SeqDrop(t, thisLen(t))

\* the value of a tag that carries no maximum
NoValue(tag) == MaxUint32

OnlyValue(t) == valAt(t, 1)

\* the values of a multi-valued entry, Value(1) .. Value(max-1)
TagValues(t) ==
    IF Len(t) = 0 \/ t[1] < 128 THEN << >>
    ELSE IF t[1] < 192 THEN << valAt(t, 1) >>
    ELSE [j \in 1..valAt(t, 1) |-> valAt(t, 1 + 4 * j)]

RECURSIVE WordsBytes(_)
WordsBytes(vs) ==
    IF vs = << >> THEN << >> ELSE WordBytes(Head(vs)) \o WordsBytes(Tail(vs))

Append_(t, k, values) ==
    IF k < 128 THEN t \o <<k>>
    ELSE IF k < 192 THEN t \o <<k>> \o WordBytes(values[1])
    ELSE t \o <<k>> \o WordBytes(Len(values)) \o WordsBytes(values)

Prepend(t, k, values) == Append_(<< >>, k, values) \o t

RECURSIVE TrimMark(_, _, _)
TrimMark(ct, e, mark) ==
    IF Empty(ct) THEN mark
    ELSE TrimMark(NextTag(ct), e + thisLen(ct),
                  IF Kind(ct) # Noop THEN e + thisLen(ct) ELSE mark)

\* a Trimmed that strips nothing
Untrimmed(t) == t

Trimmed(t) == SeqTake(t, TrimMark(t, 0, 0))

ByteString(t) == t

\* ------------------------------------------------------------------------
\* The Go types of the model (reflect.Type): kind, element type, array
\* length and struct fields.  A field's tag text is the sequence of its
\* "/"-separated parts; a part is [tok, n, vals].
\* ------------------------------------------------------------------------

Tk(tok) == [tok |-> tok, n |-> 0, vals |-> << >>]
TkN(tok, n) == [tok |-> tok, n |-> n, vals |-> << >>]
TkV(vals) == [tok |-> "union:vals", n |-> 0, vals |-> vals]

NoTagText == << Tk("") >>

Fld(name, type, text) == [name |-> name, type |-> type, text |-> text]

\* 0x80000000, the length of the 32-bit tests: the least above a 32-bit maxInt
BigMax == -2147483647 - 1

TypeDef(t) ==
    CASE t = "bool"    -> [kind |-> "Bool",   elem |-> "", len |-> 0, fields |-> << >>]
      [] t = "int"     -> [kind |-> "Int",    elem |-> "", len |-> 0, fields |-> << >>]
      [] t = "int8"    -> [kind |-> "Int8",   elem |-> "", len |-> 0, fields |-> << >>]
      [] t = "int16"   -> [kind |-> "Int16",  elem |-> "", len |-> 0, fields |-> << >>]
      [] t = "int32"   -> [kind |-> "Int32",  elem |-> "", len |-> 0, fields |-> << >>]
      [] t = "int64"   -> [kind |-> "Int64",  elem |-> "", len |-> 0, fields |-> << >>]
      [] t = "uint8"   -> [kind |-> "Uint8",  elem |-> "", len |-> 0, fields |-> << >>]
      [] t = "uint16"  -> [kind |-> "Uint16", elem |-> "", len |-> 0, fields |-> << >>]
      [] t = "uint32"  -> [kind |-> "Uint32", elem |-> "", len |-> 0, fields |-> << >>]
      [] t = "uint64"  -> [kind |-> "Uint64", elem |-> "", len |-> 0, fields |-> << >>]
      [] t = "string"  -> [kind |-> "String", elem |-> "", len |-> 0, fields |-> << >>]
      [] t = "chan"    -> [kind |-> "Chan",   elem |-> "int32", len |-> 0, fields |-> << >>]
      [] t = "[]byte"  -> [kind |-> "Slice",  elem |-> "uint8", len |-> 0, fields |-> << >>]
      [] t = "[]uint16" -> [kind |-> "Slice", elem |-> "uint16", len |-> 0, fields |-> << >>]
      [] t = "[3]byte" -> [kind |-> "Array",  elem |-> "uint8", len |-> 3, fields |-> << >>]
      [] t = "[2]uint16" -> [kind |-> "Array", elem |-> "uint16", len |-> 2, fields |-> << >>]
      [] t = "map[uint8]uint16" ->
                          [kind |-> "Map",    elem |-> "uint16", len |-> 0, fields |-> << >>]
      [] t = "*int32"  -> [kind |-> "Ptr",    elem |-> "int32", len |-> 0, fields |-> << >>]
      [] t = "*A"      -> [kind |-> "Ptr",    elem |-> "A", len |-> 0, fields |-> << >>]
      [] t = "*B"      -> [kind |-> "Ptr",    elem |-> "B", len |-> 0, fields |-> << >>]
      [] t = "*Node"   -> [kind |-> "Ptr",    elem |-> "Node", len |-> 0, fields |-> << >>]
      \* mutually recursive, and A also refers to itself
      [] t = "A"       -> [kind |-> "Struct", elem |-> "", len |-> 0, fields |->
                            << Fld("Self", "*A", NoTagText), Fld("B", "*B", NoTagText) >>]
      [] t = "B"       -> [kind |-> "Struct", elem |-> "", len |-> 0, fields |->
                            << Fld("A", "*A", NoTagText) >>]
      \* a third-party type a Codec may be registered for, and a user of it
      [] t = "Ext"     -> [kind |-> "Struct", elem |-> "", len |-> 0, fields |-> << >>]
      [] t = "Holder"  -> [kind |-> "Struct", elem |-> "", len |-> 0, fields |->
                            << Fld("E", "Ext", NoTagText) >>]
      \* a field whose tag does not parse: `opt` on a non-pointer
      [] t = "BadTag"  -> [kind |-> "Struct", elem |-> "", len |-> 0, fields |->
                            << Fld("X", "int32", << Tk("opt") >>) >>]
      \* a union whose switch is an 8-bit integer
      [] t = "PanicU"  -> [kind |-> "Struct", elem |-> "", len |-> 0, fields |->
                            << Fld("S", "int8", << Tk("union:switch") >>),
                               Fld("I", "int32", << TkV(<<0>>) >>) >>]
      \* a linked list
      [] t = "Node"    -> [kind |-> "Struct", elem |-> "", len |-> 0, fields |->
                            << Fld("V", "int8", NoTagText),
                               Fld("Next", "*Node", << Tk("opt") >>) >>]
      [] t = "TStr"    -> [kind |-> "Struct", elem |-> "", len |-> 0, fields |->
                            << Fld("Str", "string", << TkN("maxlen", 2) >>) >>]
      [] t = "TOpq"    -> [kind |-> "Struct", elem |-> "", len |-> 0, fields |->
                            << Fld("O", "[]byte", << TkN("maxlen", 2), Tk("opaque") >>) >>]
      [] t = "TSl"     -> [kind |-> "Struct", elem |-> "", len |-> 0, fields |->
                            << Fld("S", "[]uint16", << TkN("maxlen", 2) >>) >>]
      \* the same without a maximum, as a peer declares them
      [] t = "UStr"    -> [kind |-> "Struct", elem |-> "", len |-> 0, fields |->
                            << Fld("Str", "string", NoTagText) >>]
      [] t = "UOpq"    -> [kind |-> "Struct", elem |-> "", len |-> 0, fields |->
                            << Fld("O", "[]byte", << Tk(""), Tk("opaque") >>) >>]
      [] t = "USl"     -> [kind |-> "Struct", elem |-> "", len |-> 0, fields |->
                            << Fld("S", "[]uint16", NoTagText) >>]
      [] t = "TBigStr" -> [kind |-> "Struct", elem |-> "", len |-> 0, fields |->
                            << Fld("Str", "string", << TkN("maxlen", BigMax) >>) >>]
      [] t = "TBigOpq" -> [kind |-> "Struct", elem |-> "", len |-> 0, fields |->
                            << Fld("O", "[]byte", << TkN("maxlen", BigMax), Tk("opaque") >>) >>]
      [] t = "TBigSl"  -> [kind |-> "Struct", elem |-> "", len |-> 0, fields |->
                            << Fld("S", "[]uint16", << TkN("maxlen", BigMax) >>) >>]
      [] t = "TFix"    -> [kind |-> "Struct", elem |-> "", len |-> 0, fields |->
                            << Fld("F", "string", << TkN("len", 2) >>),
                               Fld("A", "[3]byte", << Tk("opaque") >>) >>]
      \* struct with a skipped field, as `nested` of the tests
      [] t = "TN"      -> [kind |-> "Struct", elem |-> "", len |-> 0, fields |->
                            << Fld("B", "bool", NoTagText),
                               Fld("Skip", "int8", << Tk("-") >>),
                               Fld("I", "int8", NoTagText) >>]
      \* a union, as `union1` of the tests
      [] t = "TU"      -> [kind |-> "Struct", elem |-> "", len |-> 0, fields |->
                            << Fld("S", "uint32", << Tk("union:switch") >>),
                               Fld("I", "int8", << TkV(<<0>>) >>),
                               Fld("IPO", "*int32", << TkV(<<1>>), Tk("opt") >>),
                               Fld("Str", "string", << TkV(<<2, 3>>), TkN("maxlen", 2) >>) >>]
      \* a pointer without and with `opt`, and its pointee in place of it
      [] t = "TP"      -> [kind |-> "Struct", elem |-> "", len |-> 0, fields |->
                            << Fld("P", "*int32", NoTagText) >>]
      [] t = "TPO"     -> [kind |-> "Struct", elem |-> "", len |-> 0, fields |->
                            << Fld("P", "*int32", << Tk("opt") >>) >>]
      [] t = "TI"      -> [kind |-> "Struct", elem |-> "", len |-> 0, fields |->
                            << Fld("P", "int32", NoTagText) >>]
      [] t = "TMap"    -> [kind |-> "Struct", elem |-> "", len |-> 0, fields |->
                            << Fld("M", "map[uint8]uint16", NoTagText) >>]
      \* a union with a default arm and a field that is not part of it
      [] t = "TUD"     -> [kind |-> "Struct", elem |-> "", len |-> 0, fields |->
                            << Fld("S", "int32", << Tk("union:switch") >>),
                               Fld("I", "int8", << TkV(<<0>>) >>),
                               Fld("Skip", "int8", << Tk("-") >>),
                               Fld("D", "uint16", << Tk("union:default") >>) >>]
      \* `len:N` on a slice, on an array, and on a string with an N above a
      \* 32-bit maxInt (as `Blob` of the tests)
      [] t = "TLenSl"  -> [kind |-> "Struct", elem |-> "", len |-> 0, fields |->
                            << Fld("S", "[]uint16", << TkN("len", 2) >>) >>]
      [] t = "TLenArr" -> [kind |-> "Struct", elem |-> "", len |-> 0, fields |->
                            << Fld("A", "[2]uint16", << TkN("len", 2) >>) >>]
      [] t = "TBigFix" -> [kind |-> "Struct", elem |-> "", len |-> 0, fields |->
                            << Fld("Blob", "string", << TkN("len", BigMax) >>) >>]
      \* a struct within a struct, and what a peer without the maximum declares
      [] t = "TNest"   -> [kind |-> "Struct", elem |-> "", len |-> 0, fields |->
                            << Fld("In", "TStr", NoTagText) >>]
      [] t = "UNest"   -> [kind |-> "Struct", elem |-> "", len |-> 0, fields |->
                            << Fld("In", "UStr", NoTagText) >>]
      \* `union:switch` on a later field, on a string, after a skipped
      \* field and on a bool
      [] t = "LateSw"  -> [kind |-> "Struct", elem |-> "", len |-> 0, fields |->
                            << Fld("A", "int32", NoTagText),
                               Fld("S", "int32", << Tk("union:switch") >>) >>]
      [] t = "StrSw"   -> [kind |-> "Struct", elem |-> "", len |-> 0, fields |->
                            << Fld("S", "string", << Tk("union:switch") >>),
                               Fld("I", "int32", << TkV(<<0>>) >>) >>]
      [] t = "SkipSw"  -> [kind |-> "Struct", elem |-> "", len |-> 0, fields |->
                            << Fld("X", "int8", << Tk("-") >>),
                               Fld("S", "uint32", << Tk("union:switch") >>),
                               Fld("I", "int8", << TkV(<<0>>) >>) >>]
      [] t = "BoolSw"  -> [kind |-> "Struct", elem |-> "", len |-> 0, fields |->
                            << Fld("S", "bool", << Tk("union:switch") >>),
                               Fld("I", "int8", << Tk("union:true") >>),
                               Fld("J", "uint16", << Tk("union:false") >>) >>]

KindOf(t) == TypeDef(t).kind
Elem(t) == TypeDef(t).elem
\* t.Key() of a map type
Key(t) == IF t = "map[uint8]uint16" THEN "uint8" ELSE ""
NumField(t) == Len(TypeDef(t).fields)
Field(t, i) == TypeDef(t).fields[i]

\* ------------------------------------------------------------------------
\* internal/tags: ParseTag
\* ------------------------------------------------------------------------

MaybeInUnion == "MaybeInUnion"
NotInUnion == "NotInUnion"
InUnion == "InUnion"

validForUnionSwitch(t) ==
    KindOf(t) \in {"Bool", "Int", "Int8", "Int16", "Int32", "Int64",
                   "Uint", "Uint8", "Uint16", "Uint32"}

canBeOpt(t) == KindOf(t) \in {"Interface", "Ptr"}

PR(xt, err, u) == [xt |-> xt, err |-> err, isUnion |-> u]

\* the loop over the layer parts, with the type cursor t
\* one layer part p applied to the tag xt, at type t (ot: the type `opaque`
\* applies to)
ParsePart(p, t, ot, xt, u) ==
    CASE p.tok = "" -> PR(Append_(xt, Noop, << >>), "", u)
      [] p.tok = "opt" ->
           IF ~canBeOpt(t) THEN PR(xt, "cannot be opt", u)
           ELSE PR(Append_(xt, Opt, << >>), "", u)
      [] p.tok = "opaque" ->
           With(IF ot # t THEN Append_(xt, Noop, << >>) ELSE xt, LAMBDA xt1 :
             IF KindOf(ot) \in {"Int8", "Uint8"}
             THEN PR(Append_(xt1, Opaque, << >>), "", u)
             ELSE PR(xt1, "opaque only applicable to bytes", u))
      [] p.tok = "len:bad" -> PR(xt, "parsing len", u)
      [] p.tok = "len" ->
           With(KindOf(t), LAMBDA k :
             IF k = "Array" THEN PR(xt, "len on array", u)
             ELSE IF k \in {"String", "Slice"}
                  THEN PR(Append_(xt, LenK, << p.n >>), "", u)
                  ELSE PR(xt, "len on other type", u))
      [] p.tok = "maxlen:bad" -> PR(xt, "parsing maxlen", u)
      [] p.tok = "maxlen" ->
           IF KindOf(t) \in {"String", "Slice"}
           THEN PR(Append_(xt, MaxLenK, << p.n >>), "", u)
           ELSE PR(xt, "maxlen on other type", u)
      [] OTHER -> PR(xt, "unknown tag", u)

\* the loop over the layer parts, with the type cursor t
RECURSIVE ParseParts(_, _, _, _, _)
ParseParts(parts, i, t, xt, u) ==
    IF i > Len(parts) THEN PR(Trimmed(xt), "", u)
    ELSE
      \* `opaque` on an array or slice steps to the element first
      With(IF parts[i].tok = "opaque" /\ KindOf(t) \in {"Array", "Slice"}
           THEN Elem(t) ELSE t, LAMBDA ot :
        With(ParsePart(parts[i], t, ot, xt, u), LAMBDA step :
          IF step.err # "" THEN step
          ELSE IF i # Len(parts) /\ KindOf(ot) \notin {"Array", "Map", "Ptr", "Slice"}
               THEN PR(step.xt, "trailing tags", u)
               ELSE ParseParts(parts, i + 1, IF i # Len(parts) THEN Elem(ot) ELSE ot,
                               step.xt, u)))

IsUnionTok(p) ==
    p.tok \in {"union:switch", "union:false", "union:true", "union:default",
               "union:vals", "union:bad"}

\* the entry a union part opens the tag with
UnionHead(p) ==
    CASE p.tok = "union:switch" -> Append_(<< >>, UnionSwitch, << >>)
      [] p.tok = "union:false" -> Append_(<< >>, UnionCases, << 0 >>)
      [] p.tok = "union:true" -> Append_(<< >>, UnionCases, << 1 >>)
      [] p.tok = "union:default" -> Append_(<< >>, UnionDefault, << >>)
      [] p.tok = "union:vals" -> Append_(<< >>, UnionCases, p.vals)
      [] OTHER -> << >>

ParseTag(t, text, isUnion) ==
    IF text = << Tk("-") >> THEN PR(skipTag, "", isUnion)
    ELSE IF ~IsUnionTok(text[1])
    THEN IF isUnion = InUnion THEN PR(<< >>, "union field without union tag", isUnion)
         ELSE ParseParts(text, 1, t, << >>, NotInUnion)
    ELSE IF text[1].tok = "union:switch" /\ isUnion # MaybeInUnion
    THEN PR(<< >>, "switch not legal here", isUnion)
    ELSE IF text[1].tok = "union:switch" /\ ~validForUnionSwitch(t)
    THEN PR(<< >>, "type not legal for switch", isUnion)
    ELSE IF text[1].tok # "union:switch" /\ isUnion # InUnion
    THEN PR(<< >>, "not inside a union", isUnion)
    ELSE IF text[1].tok = "union:bad"
    THEN PR(<< >>, "parsing union values", isUnion)
    ELSE ParseParts(Tail(text), 1, t, UnionHead(text[1]),
                    IF text[1].tok = "union:switch" THEN InUnion ELSE isUnion)

ParseStructTag(t, text, isUnion) == ParseTag(t, text, isUnion)

\* ------------------------------------------------------------------------
\* internal/errors
\* ------------------------------------------------------------------------

\* an error value; path is empty unless the error is a FieldError
\* wraps counts the FieldError values around the error, path is the Path of
\* the outermost
Err(e) == [e |-> e, actual |-> 0, max |-> 0, path |-> << >>, wraps |-> 0]
NoErr == Err("")
LengthError(actual, max) ==
    [e |-> "LengthError", actual |-> actual, max |-> max, path |-> << >>, wraps |-> 0]

\* maxInt = int(maxUint >> 1); on a 64-bit platform no uint32 exceeds it
MaxInt32 == 2147483647
ExceedsMaxInt(u) == host = "32" /\ ULess(MaxInt32, u)

\* errors.Is(err, target): FieldError unwraps, LengthError.Is decides
ErrIs(err, target) ==
    IF err.e = "LengthError"
    THEN CASE target = "ErrLengthExceedsMax" -> ULess(err.max, err.actual)
           [] target = "ErrLengthExceedsPlatformLimit" -> ExceedsMaxInt(err.actual)
           [] OTHER -> FALSE
    ELSE err.e = target

\* a WithFieldError without the type switch: a FieldError around whatever
\* it is given
WithFieldErrorNested(err, combined) ==
    IF err = NoErr THEN NoErr
    ELSE [err EXCEPT !.wraps = @ + 1, !.path = << combined >> \o @]

\* the type switch: a FieldError gets the longer path, any other error is
\* put into a new FieldError
WithFieldError(err, combined) ==
    IF err = NoErr THEN NoErr
    ELSE IF err.wraps > 0
    THEN [err EXCEPT !.path = << combined >> \o @]
    ELSE [err EXCEPT !.wraps = 1, !.path = << combined >>]

\* ------------------------------------------------------------------------
\* internal/coder: the builders.  A builder's result is summarised as a
\* plan: the codec it returns (or the panic it ends in) and the getCodec
\* calls it makes, in order.
\* ------------------------------------------------------------------------

XType(t, tag) == [type |-> t, tag |-> ByteString(tag)]

NoPlan ==
    [outcome |-> "codec", ckind |-> "", children |-> << >>, fidx |-> << >>,
     cases |-> {}, defaultCase |-> -1, switchKind |-> "", len |-> 0,
     maxlen |-> 0, origMax |-> 0, err |-> NoErr]

ErrorPlan(err, children) ==
    [NoPlan EXCEPT !.ckind = "error", !.err = err, !.children = children]

PanicPlan(children) == [NoPlan EXCEPT !.outcome = "panic", !.children = children]

Leaf(ckind) == [NoPlan EXCEPT !.ckind = ckind]

makeOptCodec(t, tag) ==
    [NoPlan EXCEPT !.ckind = "opt",
       !.children = << XType(t, Trimmed(Prepend(NextTag(tag), Noop, << >>))) >>]

makePtrCodec(t, tag) ==
    [NoPlan EXCEPT !.ckind = "ptr", !.children = << XType(Elem(t), NextTag(tag)) >>]

makeStringCodec(t, tag) ==
    IF ~Empty(NextTag(tag)) THEN ErrorPlan(Err("string with following tags"), << >>)
    ELSE IF Kind(tag) \notin {LenK, MaxLenK, Noop}
    THEN ErrorPlan(Err("InvalidTagForTypeError"), << >>)
    ELSE
      LET fixed == Kind(tag) = LenK
          len == IF Kind(tag) = Noop THEN MaxUint32 ELSE OnlyValue(tag)
      IN  IF ExceedsMaxInt(len) /\ fixed
          THEN ErrorPlan(LengthError(len, len), << >>)
          ELSE IF fixed
          THEN [NoPlan EXCEPT !.ckind = "fixedString", !.len = len]
          ELSE [NoPlan EXCEPT !.ckind = "varString",
                  !.maxlen = IF ExceedsMaxInt(len) THEN MaxInt32 ELSE len,
                  !.origMax = len]

makeArrayCodec(t, tag) ==
    IF Kind(tag) # Noop THEN ErrorPlan(Err("InvalidTagForTypeError"), << >>)
    ELSE IF Kind(NextTag(tag)) = Opaque
    THEN [NoPlan EXCEPT !.ckind = "opaqueArray", !.len = TypeDef(t).len]
    ELSE [NoPlan EXCEPT !.ckind = "array", !.len = TypeDef(t).len,
            !.children = << XType(Elem(t), NextTag(tag)) >>]

makeSliceCodec(t, tag) ==
    IF Kind(tag) \notin {MaxLenK, Noop} THEN ErrorPlan(Err("InvalidTagForTypeError"), << >>)
    ELSE
      LET origMax == IF Kind(tag) = MaxLenK THEN OnlyValue(tag) ELSE MaxUint32
          maxlen == IF ExceedsMaxInt(origMax) THEN MaxInt32 ELSE origMax
      IN  IF Kind(NextTag(tag)) = Opaque
          THEN [NoPlan EXCEPT !.ckind = "opaqueSlice", !.maxlen = maxlen, !.origMax = origMax]
          ELSE [NoPlan EXCEPT !.ckind = "slice", !.maxlen = maxlen, !.origMax = origMax,
                  !.children = << XType(Elem(t), NextTag(tag)) >>]

makeMapCodec(t, tag) ==
    IF Kind(tag) \notin {MaxLenK, Noop} THEN ErrorPlan(Err("InvalidTagForTypeError"), << >>)
    ELSE
      LET origMax == IF Kind(tag) = MaxLenK THEN OnlyValue(tag) ELSE MaxUint32
          maxlen == IF ExceedsMaxInt(origMax) THEN MaxInt32 ELSE origMax
      IN  [NoPlan EXCEPT !.ckind = "map", !.maxlen = maxlen, !.origMax = origMax,
             !.children = << XType(Key(t), emptyTag), XType(Elem(t), NextTag(tag)) >>]

\* makeField: the getCodec call for field i under the given tag
FieldKey(t, i, tag) == XType(Field(t, i).type, tag)

\* the first loop of makeStructCodec: parse fields until the struct is
\* known to be a union or not.  Returns the index and tag of the deciding
\* field, or "error", or "maybe" when every field is skipped.
RECURSIVE FirstPass(_, _)
FirstPass(t, i) ==
    IF i > NumField(t) THEN [st |-> MaybeInUnion, i |-> i, tag |-> << >>]
    ELSE With(ParseStructTag(Field(t, i).type, Field(t, i).text, MaybeInUnion), LAMBDA r :
           IF r.err # "" THEN [st |-> "error", i |-> i, tag |-> << >>]
           ELSE IF Kind(r.xt) = Skip THEN FirstPass(t, i + 1)
           ELSE [st |-> r.isUnion, i |-> i, tag |-> r.xt])

\* the loop over the remaining fields of a struct, were it to give the
\* fields tagged `-` a codec as well
RECURSIVE RestStructAll(_, _, _, _)
RestStructAll(t, i, children, fidx) ==
    IF i > NumField(t)
    THEN [NoPlan EXCEPT !.ckind = "struct", !.children = children, !.fidx = fidx]
    ELSE With(ParseStructTag(Field(t, i).type, Field(t, i).text, NotInUnion), LAMBDA r :
           IF r.err # "" THEN ErrorPlan(Err("Parsing tag of field"), children)
           ELSE RestStructAll(t, i + 1,
                              Append(children, FieldKey(t, i, IF Kind(r.xt) = Skip
                                                              THEN emptyTag ELSE r.xt)),
                              Append(fidx, i)))

\* the loop over the remaining fields of a struct
RECURSIVE RestStruct(_, _, _, _)
RestStruct(t, i, children, fidx) ==
    IF i > NumField(t)
    THEN [NoPlan EXCEPT !.ckind = "struct", !.children = children, !.fidx = fidx]
    ELSE With(ParseStructTag(Field(t, i).type, Field(t, i).text, NotInUnion), LAMBDA r :
           IF r.err # "" THEN ErrorPlan(Err("Parsing tag of field"), children)
           ELSE IF Kind(r.xt) = Skip THEN RestStruct(t, i + 1, children, fidx)
           ELSE RestStruct(t, i + 1, Append(children, FieldKey(t, i, r.xt)),
                           Append(fidx, i)))

SeqToSet(s) == {s[j] : j \in 1..Len(s)}

\* does a list of case values repeat one, or one already in the table
RECURSIVE FirstDup(_, _)
FirstDup(vals, seen) ==
    IF vals = << >> THEN FALSE
    ELSE Head(vals) \in seen \/ FirstDup(Tail(vals), seen \cup {Head(vals)})

\* one arm of a union, field i with tag xt and codec key ch, added to the
\* table: the table after it, or the error
AddArm(plan, i, xt, ch) ==
    CASE Kind(xt) = UnionCases ->
           IF FirstDup(TagValues(xt), {c[1] : c \in plan.cases})
           THEN ErrorPlan(Err("Union value duplicated"), Append(plan.children, ch))
           ELSE [plan EXCEPT !.children = Append(@, ch), !.fidx = Append(@, i),
                             !.cases = @ \cup {<<v, i>> : v \in SeqToSet(TagValues(xt))}]
      [] Kind(xt) = UnionDefault ->
           IF plan.defaultCase # -1
           THEN ErrorPlan(Err("Default case duplicated"), Append(plan.children, ch))
           ELSE [plan EXCEPT !.children = Append(@, ch), !.fidx = Append(@, i),
                             !.defaultCase = i]
      [] OTHER -> [plan EXCEPT !.children = Append(@, ch), !.fidx = Append(@, i)]

\* the loop over the arms of a union; plan.cases is a set of <<value, field>>
RECURSIVE RestUnion(_, _, _)
RestUnion(t, i, plan) ==
    IF i > NumField(t) \/ plan.ckind = "error" THEN plan
    ELSE With(ParseStructTag(Field(t, i).type, Field(t, i).text, InUnion), LAMBDA r :
           IF r.err # "" THEN ErrorPlan(Err("Parsing tag of field"), plan.children)
           ELSE IF Kind(r.xt) = Skip THEN RestUnion(t, i + 1, plan)
           ELSE RestUnion(t, i + 1, AddArm(plan, i, r.xt, FieldKey(t, i, NextTag(r.xt)))))

\* the switch of a union: its kind decides switchKind, or the panic
UnionFrom(t, i, tag, k) ==
    IF k \notin {"Int32", "Uint32", "Bool"}
    THEN PanicPlan(<< >>)
    ELSE RestUnion(t, i + 1,
                   [NoPlan EXCEPT !.ckind = "union",
                      !.children = << FieldKey(t, i, NextTag(tag)) >>, !.fidx = << i >>,
                      !.switchKind = CASE k = "Int32" -> "switchKindInt"
                                       [] k = "Uint32" -> "switchKindUint"
                                       [] k = "Bool" -> "switchKindBool"])

makeStructCodec(t) ==
    With(FirstPass(t, 1), LAMBDA fp :
      CASE fp.st = "error" -> ErrorPlan(Err("Parsing tag of field"), << >>)
        [] fp.st = MaybeInUnion -> [NoPlan EXCEPT !.ckind = "struct"]
        [] fp.st = NotInUnion ->
             RestStruct(t, fp.i + 1, << FieldKey(t, fp.i, fp.tag) >>, << fp.i >>)
        [] fp.st = InUnion -> UnionFrom(t, fp.i, fp.tag, KindOf(Field(t, fp.i).type)))

PrimitiveCodec(k) ==
    CASE k = "Bool" -> "bool"
      [] k = "Int8" -> "int8"
      [] k = "Int16" -> "int16"
      [] k = "Int32" -> "int32"
      [] k = "Uint8" -> "uint8"
      [] k = "Uint16" -> "uint16"
      [] k = "Uint32" -> "uint32"
      [] k = "Int64" -> "hyper"
      [] k = "Uint64" -> "uhyper"

buildCodec(t, tag) ==
    LET k == KindOf(t)
    IN  IF Kind(tag) = Opt THEN makeOptCodec(t, tag)
        ELSE IF k = "Ptr" THEN makePtrCodec(t, tag)
        ELSE IF k = "String" THEN makeStringCodec(t, tag)
        ELSE IF k = "Array" THEN makeArrayCodec(t, tag)
        ELSE IF k = "Slice" THEN makeSliceCodec(t, tag)
        ELSE IF k = "Map" THEN makeMapCodec(t, tag)
        ELSE IF ~Empty(tag) THEN ErrorPlan(Err("InvalidTagForTypeError"), << >>)
        ELSE IF k \in {"Bool", "Int8", "Int16", "Int32", "Uint8", "Uint16", "Uint32",
                       "Int64", "Uint64"}
        THEN Leaf(PrimitiveCodec(k))
        ELSE IF k = "Struct" THEN makeStructCodec(t)
        ELSE ErrorPlan(Err("InvalidTypeError"), << >>)

\* ------------------------------------------------------------------------
\* Codec objects.  k is the Go type of the object; a built object is
\* identified by its key and the thread that built it, a primitive codec
\* is a package-level singleton, a user codec is named by id.
\* ------------------------------------------------------------------------

Codec(k, key, id, elems, ckind, err) ==
    [k |-> k, key |-> key, id |-> id, elems |-> elems, ckind |-> ckind, err |-> err]

NoKey == [type |-> "", tag |-> << >>]
Nil == Codec("nil", NoKey, "", << >>, "", NoErr)

newDeferredCodec(key) == Codec("dc", key, "", << >>, "deferred", NoErr)
UserCodec(u) == Codec("user", NoKey, u, << >>, "user", NoErr)

PrimitiveCodecs ==
    {"bool", "int8", "int16", "int32", "uint8", "uint16", "uint32", "hyper", "uhyper"}

\* what buildCodec returns in thread th once the nested lookups returned got
BuiltCodec(key, th, got, plan) ==
    IF plan.ckind \in PrimitiveCodecs
    THEN Codec("prim", NoKey, "", << >>, plan.ckind, NoErr)
    ELSE IF plan.ckind = "error"
    THEN Codec("obj", key, th, << >>, "error", plan.err)
    ELSE Codec("obj", key, th, got, plan.ckind, NoErr)

\* does the object have encodeUnsafe / decodeUnsafe (default build)
IsCodecUnsafe(c) ==
    \/ c.k \in {"dc", "prim", "wrap"}
    \/ c.k = "obj" /\ c.ckind # "error"

\* the type assertion c.(xCodec); xCodec is Codec itself in a nounsafe build
IsXCodec(c) == nounsafe \/ IsCodecUnsafe(c)

toXCodec(c) ==
    IF nounsafe \/ IsCodecUnsafe(c) THEN c
    ELSE Codec("wrap", c.key, c.id, << c >>, "unsafeCodecWrapper", NoErr)

toOriginalCodec(x) ==
    IF ~nounsafe /\ x.k = "wrap" THEN x.elems[1] ELSE x

\* a map that never finds an entry
NeverHas(m, k) == FALSE

\* sync.Map
Has(m, k) == k \in DOMAIN m
Put(m, k, v) == [x \in (DOMAIN m) \cup {k} |-> IF x = k THEN v ELSE m[x]]
Get(m, k) == IF k \in DOMAIN m THEN m[k] ELSE Nil

\* a LoadOrStore that stores over whatever is present
LoadOrStoreBlind(m, k) == FALSE

\* LoadOrStore finds an entry exactly when one is present
LoadOrStoreFound(m, k) == Has(m, k)

\* ------------------------------------------------------------------------
\* The registry as a state machine: threads run Encode / Decode and
\* RegisterCodecReflect on one Coder.
\* ------------------------------------------------------------------------

Threads == {"t1", "t2"}
UserCodecs == {"u1", "u2"}
LookupTypes == {"A", "Holder", "PanicU", "BadTag", "chan"}
RegisterTypes == {"Ext", "int32", "chan"}

\* top-level operations started in a run
MaxOps == 2
\* how far one Encode / Decode descends into the codec graph
MaxDepth == 2

wvars == << wtype, wval, wphase, wout, wsrc, wdec, wdst, strm, tagp, encp >>
rvars == << knownCodecs, knownBaseCodecs, dcReal, dcWg, pc, call, stack, op, ret,
            cur, ops, hist, crashed >>
vars == << host, nounsafe, planOf, rvars, wvars >>

NoOp == [kind |-> "", key |-> NoKey, pre |-> Nil, c |-> Nil]
NoRet == [kind |-> "", key |-> NoKey, pre |-> Nil, c |-> Nil, got |-> Nil,
          post |-> Nil, end |-> "", why |-> "", result |-> NoErr, by |-> ""]
NoCur == [c |-> Nil, depth |-> 0]

\* an activation of buildCodec: the builder's plan, the next nested lookup
\* and the codecs the nested lookups returned
Frame(key) ==
    [key |-> key, plan |-> planOf[key], idx |-> 1, got |-> << >>]

prohibitedCustomCodecKinds ==
    {"Invalid", "Array", "Slice", "String", "Map", "Ptr", "Chan", "Func", "UnsafePointer"}

prohibitedPrimitives ==
    {"bool", "int8", "int16", "int32", "int64", "int", "uint8", "uint16", "uint32",
     "uint64", "uint", "uintptr", "float32", "float64", "complex64", "complex128"}

\* ghost: one more codec returned by a lookup of key
Returned(key, c) ==
    LET old == IF key \in DOMAIN hist.returned THEN hist.returned[key] ELSE << >>
    IN  [hist EXCEPT !.returned =
            Put(hist.returned, key,
                IF old # << >> /\ old[Len(old)] = c THEN old ELSE Append(old, c))]

\* a lookup of key returns c to its caller: to the builder above it, or to
\* Encode / Decode, which goes on to call the codec
Return(th, key, c, stk, h) ==
    /\ hist' = h
    /\ call' = [call EXCEPT ![th] = NoKey]
    /\ IF stk = << >>
       THEN /\ stack' = [stack EXCEPT ![th] = << >>]
            /\ pc' = [pc EXCEPT ![th] = "use"]
            /\ cur' = [cur EXCEPT ![th] = [c |-> c, depth |-> 0]]
            /\ ret' = [ret EXCEPT ![th] =
                         [NoRet EXCEPT !.kind = op[th].kind, !.key = op[th].key,
                                       !.pre = op[th].pre, !.got = c]]
       ELSE LET f == stk[Len(stk)]
            IN  /\ stack' = [stack EXCEPT ![th] =
                      [stk EXCEPT ![Len(stk)] =
                          [f EXCEPT !.idx = f.idx + 1, !.got = Append(f.got, c)]]]
                /\ pc' = [pc EXCEPT ![th] = "build"]
                /\ UNCHANGED << cur, ret >>

\* a panic unwinds the thread's operation; the caller recovers it, or the
\* process ends
Panic(th, why) ==
    /\ stack' = [stack EXCEPT ![th] = << >>]
    /\ call' = [call EXCEPT ![th] = NoKey]
    /\ cur' = [cur EXCEPT ![th] = NoCur]
    /\ pc' = [pc EXCEPT ![th] = "idle"]
    /\ ret' = [ret EXCEPT ![th] =
                 [NoRet EXCEPT !.kind = op[th].kind, !.key = op[th].key,
                               !.pre = op[th].pre, !.c = op[th].c,
                               !.end = "panic", !.why = why]]
    /\ \E recovered \in BOOLEAN : crashed' = ~recovered

\* encoder.EncodeValue and decoder.decodeValue start a lookup of the base type
Start(th, kind, t) ==
    /\ ~crashed /\ pc[th] = "idle" /\ ops < MaxOps
    /\ ops' = ops + 1
    /\ op' = [op EXCEPT ![th] = [kind |-> kind, key |-> XType(t, emptyTag),
                                 pre |-> Get(knownCodecs, XType(t, emptyTag)),
                                 c |-> Nil]]
    /\ call' = [call EXCEPT ![th] = XType(t, emptyTag)]
    /\ pc' = [pc EXCEPT ![th] = IF kind = "Encode" THEN "base" ELSE "load"]
    /\ ret' = [ret EXCEPT ![th] = NoRet]
    /\ hist' = [hist EXCEPT !.roots = @ \cup {XType(t, emptyTag)}]
    /\ UNCHANGED << host, nounsafe, planOf, knownCodecs, knownBaseCodecs, dcReal, dcWg, stack,
                    cur, crashed, wvars >>

getBaseCodec(th) ==
    /\ ~crashed /\ pc[th] = "base"
    /\ IF Has(knownBaseCodecs, call[th].type)
       THEN Return(th, call[th], knownBaseCodecs[call[th].type], stack[th],
                   Returned(call[th], knownBaseCodecs[call[th].type]))
            /\ UNCHANGED crashed
       ELSE /\ pc' = [pc EXCEPT ![th] = "los"]
            /\ UNCHANGED << call, stack, cur, ret, hist, crashed >>
    /\ UNCHANGED << host, nounsafe, planOf, knownCodecs, knownBaseCodecs, dcReal, dcWg, op, ops,
                    wvars >>

getCodec(th) ==
    /\ ~crashed /\ pc[th] = "load"
    /\ IF Has(knownCodecs, call[th])
       THEN IF IsXCodec(knownCodecs[call[th]])
            THEN Return(th, call[th], knownCodecs[call[th]], stack[th],
                        Returned(call[th], knownCodecs[call[th]]))
                 /\ UNCHANGED crashed
            ELSE Panic(th, "interface conversion") /\ UNCHANGED hist
       ELSE /\ pc' = [pc EXCEPT ![th] = "los"]
            /\ UNCHANGED << call, stack, cur, ret, hist, crashed >>
    /\ UNCHANGED << host, nounsafe, planOf, knownCodecs, knownBaseCodecs, dcReal, dcWg, op, ops,
                    wvars >>

\* getNewCodec up to LoadOrStore(xt, dc): the loser takes the entry found,
\* the winner starts buildCodec
getNewCodec(th) ==
    /\ ~crashed /\ pc[th] = "los"
    /\ IF LoadOrStoreFound(knownCodecs, call[th])
       THEN /\ IF IsXCodec(knownCodecs[call[th]])
               THEN Return(th, call[th], knownCodecs[call[th]], stack[th],
                           Returned(call[th], knownCodecs[call[th]]))
                    /\ UNCHANGED crashed
               ELSE Panic(th, "interface conversion") /\ UNCHANGED hist
            /\ UNCHANGED << knownCodecs, dcReal, dcWg >>
       ELSE /\ knownCodecs' = Put(knownCodecs, call[th], newDeferredCodec(call[th]))
            /\ dcReal' = Put(dcReal, call[th], Nil)
            /\ dcWg' = Put(dcWg, call[th], 1)
            /\ stack' = [stack EXCEPT ![th] = Append(stack[th], Frame(call[th]))]
            /\ hist' = [hist EXCEPT !.builds =
                          Put(hist.builds, call[th],
                              IF call[th] \in DOMAIN hist.builds
                              THEN hist.builds[call[th]] + 1 ELSE 1)]
            /\ call' = [call EXCEPT ![th] = NoKey]
            /\ pc' = [pc EXCEPT ![th] = "build"]
            /\ UNCHANGED << cur, ret, crashed >>
    /\ UNCHANGED << host, nounsafe, planOf, knownBaseCodecs, op, ops, wvars >>

TopFrame(th) == stack[th][Len(stack[th])]

\* buildCodec: the next nested getCodec of the builder, then its result
build(th) ==
    /\ ~crashed /\ pc[th] = "build"
    /\ LET f == TopFrame(th)
           plan == f.plan
       IN  IF f.idx <= Len(plan.children)
           THEN /\ call' = [call EXCEPT ![th] = plan.children[f.idx]]
                /\ pc' = [pc EXCEPT ![th] = "load"]
                /\ UNCHANGED << stack, cur, ret, crashed >>
           ELSE IF plan.outcome = "panic"
           THEN Panic(th, "buildCodec")
           ELSE /\ pc' = [pc EXCEPT ![th] = "store"]
                /\ UNCHANGED << call, stack, cur, ret, crashed >>
    /\ UNCHANGED << host, nounsafe, planOf, knownCodecs, knownBaseCodecs, dcReal, dcWg, op, ops,
                    hist, wvars >>

\* cc := toXCodec(cr.buildCodec(xt.Type, tag), xt.Type)
NewCodec(th) ==
    toXCodec(BuiltCodec(TopFrame(th).key, th, TopFrame(th).got, TopFrame(th).plan))

\* cr.knownCodecs.Store(xt, cc)
store(th) ==
    /\ ~crashed /\ pc[th] = "store"
    /\ knownCodecs' = Put(knownCodecs, TopFrame(th).key, NewCodec(th))
    /\ pc' = [pc EXCEPT ![th] =
                IF Empty(TopFrame(th).key.tag) THEN "storeBase" ELSE "resolveReal"]
    /\ UNCHANGED << host, nounsafe, planOf, knownBaseCodecs, dcReal, dcWg, call, stack, op, ret,
                    cur, ops, hist, crashed, wvars >>

\* cr.knownBaseCodecs.Store(xt.Type, cc)
storeBase(th) ==
    /\ ~crashed /\ pc[th] = "storeBase"
    /\ knownBaseCodecs' = Put(knownBaseCodecs, TopFrame(th).key.type, NewCodec(th))
    /\ pc' = [pc EXCEPT ![th] = "resolveReal"]
    /\ UNCHANGED << host, nounsafe, planOf, knownCodecs, dcReal, dcWg, call, stack, op, ret,
                    cur, ops, hist, crashed, wvars >>

\* deferredCodec.resolve: dc.real.Store(real)
resolveReal(th) ==
    /\ ~crashed /\ pc[th] = "resolveReal"
    /\ dcReal' = Put(dcReal, TopFrame(th).key, NewCodec(th))
    /\ pc' = [pc EXCEPT ![th] = "resolveDone"]
    /\ UNCHANGED << host, nounsafe, planOf, knownCodecs, knownBaseCodecs, dcWg, call, stack, op,
                    ret, cur, ops, hist, crashed, wvars >>

\* deferredCodec.resolve: dc.wg.Done(), and getNewCodec returns cc
resolveDone(th) ==
    /\ ~crashed /\ pc[th] = "resolveDone"
    /\ dcWg' = Put(dcWg, TopFrame(th).key, 0)
    /\ Return(th, TopFrame(th).key, NewCodec(th), SubSeq(stack[th], 1, Len(stack[th]) - 1),
              Returned(TopFrame(th).key, NewCodec(th)))
    /\ UNCHANGED << host, nounsafe, planOf, knownCodecs, knownBaseCodecs, dcReal, op, ops,
                    crashed, wvars >>

\* the operation ends and hands its error (or nil) to the caller
Finish(th, c, result) ==
    /\ pc' = [pc EXCEPT ![th] = "idle"]
    /\ cur' = [cur EXCEPT ![th] = NoCur]
    /\ ret' = [ret EXCEPT ![th] = [@ EXCEPT !.end = "return", !.by = c.id,
                                              !.c = c, !.result = result]]

\* Encode / Decode of the codec in hand.  A placeholder loads its real codec
\* or waits for it; a wrapper and a built codec call the codecs they embed
\* (which ones depends on the value: a nil optional calls none).
use(th) ==
    /\ ~crashed /\ pc[th] = "use"
    /\ LET c == cur[th].c
       IN  CASE c.k = "dc" ->
                  IF dcReal[c.key] # Nil
                  THEN /\ cur' = [cur EXCEPT ![th].c = dcReal[c.key]]
                       /\ UNCHANGED << pc, ret >>
                  ELSE /\ pc' = [pc EXCEPT ![th] = "wait"]
                       /\ UNCHANGED << cur, ret >>
             [] c.k = "wrap" ->
                  /\ cur' = [cur EXCEPT ![th].c = c.elems[1]]
                  /\ UNCHANGED << pc, ret >>
             [] c.k \in {"prim", "user"} -> Finish(th, c, NoErr)
             [] c.k = "obj" ->
                  IF c.ckind = "error" THEN Finish(th, c, c.err)
                  ELSE \/ Finish(th, c, NoErr)
                       \/ /\ cur[th].depth < MaxDepth
                          /\ \E i \in 1..Len(c.elems) :
                                cur' = [cur EXCEPT ![th] =
                                          [c |-> c.elems[i], depth |-> cur[th].depth + 1]]
                          /\ UNCHANGED << pc, ret >>
    /\ UNCHANGED << host, nounsafe, planOf, knownCodecs, knownBaseCodecs, dcReal, dcWg, call,
                    stack, op, ops, hist, crashed, wvars >>

\* dc.wg.Wait() returns once the counter is zero; real = dc.real.Load()
wait(th) ==
    /\ ~crashed /\ pc[th] = "wait"
    /\ dcWg[cur[th].c.key] = 0
    /\ cur' = [cur EXCEPT ![th].c = dcReal[cur[th].c.key]]
    /\ pc' = [pc EXCEPT ![th] = "use"]
    /\ UNCHANGED << host, nounsafe, planOf, knownCodecs, knownBaseCodecs, dcReal, dcWg, call,
                    stack, op, ret, ops, hist, crashed, wvars >>

\* Coder.RegisterCodecReflect(t, c)
RegisterCodecReflect(th, t, u) ==
    /\ ~crashed /\ pc[th] = "idle" /\ ops < MaxOps
    /\ ops' = ops + 1
    /\ LET xt == XType(t, emptyTag)
           c == UserCodec(u)
           existing == Get(knownCodecs, xt)
           found == LoadOrStoreFound(knownCodecs, xt)
           r == [NoRet EXCEPT !.kind = "Register", !.key = xt, !.pre = existing, !.c = c]
           panics(why, post) ==
               /\ ret' = [ret EXCEPT ![th] =
                            [r EXCEPT !.end = "panic", !.why = why, !.post = post]]
               /\ \E recovered \in BOOLEAN : crashed' = ~recovered
       IN  /\ op' = [op EXCEPT ![th] = [kind |-> "Register", key |-> xt,
                                        pre |-> existing, c |-> c]]
           /\ IF KindOf(t) \in prohibitedCustomCodecKinds
              THEN panics("prohibited kind", existing) /\ UNCHANGED knownCodecs
              ELSE IF t \in prohibitedPrimitives
              THEN panics("prohibited primitive", existing) /\ UNCHANGED knownCodecs
              ELSE IF ~found
              THEN /\ knownCodecs' = Put(knownCodecs, xt, c)
                   /\ ret' = [ret EXCEPT ![th] = [r EXCEPT !.end = "return", !.post = c]]
                   /\ UNCHANGED crashed
              ELSE /\ UNCHANGED knownCodecs
                   /\ IF ~IsXCodec(existing)
                      THEN panics("interface conversion", existing)
                      ELSE IF toOriginalCodec(existing) # c
                      THEN panics("already registered", existing)
                      ELSE /\ ret' = [ret EXCEPT ![th] =
                                        [r EXCEPT !.end = "return", !.post = existing]]
                           /\ UNCHANGED crashed
    /\ UNCHANGED << host, nounsafe, planOf, knownBaseCodecs, dcReal, dcWg, pc, call, stack, cur,
                    hist, wvars >>

\* the keys a lookup of the given keys can reach through nested lookups
RECURSIVE ReachableKeys(_)
ReachableKeys(ks) ==
    With(ks \cup UNION {SeqToSet(planOf[k].children) : k \in ks}, LAMBDA next :
      IF next = ks THEN ks ELSE ReachableKeys(next))

\* what buildCodec makes for every key getCodec can be asked for from the
\* keys todo on, each key built once: the keys of todo, then their children
RECURSIVE Plans(_, _)
Plans(f, todo) ==
    IF todo = {} THEN f
    ELSE With([k \in todo |-> buildCodec(k.type, k.tag)], LAMBDA g :
           Plans([k \in DOMAIN f \cup todo |-> IF k \in todo THEN g[k] ELSE f[k]],
                 UNION {SeqToSet(g[k].children) : k \in todo} \ (DOMAIN f \cup todo)))

\* the keys a program starts from: the types it passes with the empty tag
RootKeys(types) == {XType(t, emptyTag) : t \in types}

\* len(encoder.codecCache)
CacheSize == 4

\* the encoders the pool hands out, the Coders they serve and the types
\* they are given; "bool" has a package-level codec, "Ext" is the type that
\* RegisterCodec gives a user codec
Encoders == {"e1", "e2"}
Registries == {"crA", "crB"}
PoolTypes == {"bool", "TN", "Node", "TU", "Ext"}

NoEntry == [type_ |-> "", codec |-> [owner |-> "", type |-> "", user |-> FALSE]]

\* what encoderPool's New returns
NewEncoder ==
    [st |-> "none", cr |-> "", codecCache |-> [i \in 0..(CacheSize - 1) |-> NoEntry],
     codecCacheSlot |-> 3]

NoServe == [e |-> "", cr |-> "", type |-> "", codec |-> NoEntry.codec, hit |-> FALSE]

\* no encoder made yet, no codec registered, nothing returned
PoolStart ==
    [encs |-> [e \in Encoders |-> NewEncoder],
     registered |-> [cr \in Registries |-> FALSE],
     returned |-> {}, last |-> NoServe, ops |-> 0]

WireIdle ==
    /\ wtype = "" /\ wval = << >> /\ wphase = "off"
    /\ wout = << >> /\ wsrc = << >> /\ wdec = << >> /\ wdst = << >>
    /\ strm = [phase |-> "off"]
    /\ tagp = [phase |-> "off"]
    /\ encp = PoolStart

\* a new Coder, no operation running
Init ==
    /\ host = "64"
    /\ nounsafe \in BOOLEAN
    /\ planOf = Plans(<< >>, RootKeys(LookupTypes \cup RegisterTypes))
    /\ knownCodecs = << >> /\ knownBaseCodecs = << >>
    /\ dcReal = << >> /\ dcWg = << >>
    /\ pc = [th \in Threads |-> "idle"]
    /\ call = [th \in Threads |-> NoKey]
    /\ stack = [th \in Threads |-> << >>]
    /\ op = [th \in Threads |-> NoOp]
    /\ ret = [th \in Threads |-> NoRet]
    /\ cur = [th \in Threads |-> NoCur]
    /\ ops = 0
    /\ hist = [builds |-> << >>, returned |-> << >>, roots |-> {}]
    /\ crashed = FALSE
    /\ WireIdle

\* the steps of a running operation of thread th
Step(th) ==
    \/ getBaseCodec(th)
    \/ getCodec(th)
    \/ getNewCodec(th)
    \/ build(th)
    \/ store(th)
    \/ storeBase(th)
    \/ resolveReal(th)
    \/ resolveDone(th)
    \/ use(th)
    \/ wait(th)

Next ==
    \/ \E th \in Threads, t \in LookupTypes : Start(th, "Encode", t)
    \/ \E th \in Threads, t \in LookupTypes : Start(th, "Decode", t)
    \/ \E th \in Threads, t \in RegisterTypes, u \in UserCodecs :
          RegisterCodecReflect(th, t, u)
    \/ \E th \in Threads : Step(th)

Spec == Init /\ [][Next]_vars

\* the scheduler runs every thread that can take a step
FairSpec == Spec /\ \A th \in Threads : WF_vars(Step(th))

\* ------------------------------------------------------------------------
\* Properties of the registry
\* ------------------------------------------------------------------------

Building(th) == stack[th] # << >>

IsLookup(r) == r.kind \in {"Encode", "Decode"}

\* C2: when several threads race on the first lookup of one key, buildCodec
\* is started at most once for the key, and every lookup of the key returns
\* the installed placeholder or the entry published for the key.
C2_OneConstructionPerKey ==
    /\ \A k \in DOMAIN hist.builds : hist.builds[k] <= 1
    /\ \A k \in DOMAIN hist.returned : \A i \in 1..Len(hist.returned[k]) :
          \/ hist.returned[k][i] = newDeferredCodec(k)
          \/ hist.returned[k][i] = knownCodecs[k]

\* C2 witness: both threads started a lookup of the recursive type A while
\* it had no entry, both got a codec, and A was constructed once.
C2_Witness ==
    /\ \A th \in Threads :
          /\ ret[th].kind \in {"Encode", "Decode"} /\ ret[th].key = XType("A", emptyTag)
          /\ ret[th].pre = Nil /\ ret[th].got # Nil
    /\ hist.builds[XType("A", emptyTag)] = 1

\* C3: a thread blocked on a placeholder in Encode / Decode is eventually
\* released (as long as the process lives).
C3_BlockedThreadsReleased ==
    \A th \in Threads :
        (pc[th] = "wait" /\ ~crashed) ~> (pc[th] # "wait" \/ crashed)

KeysUnder(th, i) == {stack[th][j].key : j \in 1..i}

C4_Inv ==
    /\ \A th \in Threads : \A i, j \in 1..Len(stack[th]) :
          i # j => stack[th][i].key # stack[th][j].key
    /\ \A th \in Threads : \A i \in 1..Len(stack[th]) :
          \A n \in 1..Len(stack[th][i].got) :
             LET child == stack[th][i].plan.children[n]
             IN  child \in KeysUnder(th, i) =>
                    stack[th][i].got[n] = newDeferredCodec(child)
    /\ DOMAIN hist.builds \subseteq ReachableKeys(hist.roots)
    /\ \A k \in DOMAIN hist.builds : hist.builds[k] <= 1

\* C4: constructing a cyclic type terminates: no key is under construction
\* twice on a thread, a nested lookup of a key under construction got its
\* placeholder, the keys constructed are keys reachable from the roots, each
\* constructed once, and every construction a thread starts comes to an end
\* (as long as the process lives).
C4_CyclicConstructionTerminates ==
    /\ []C4_Inv
    /\ \A th \in Threads : Building(th) ~> (~Building(th) \/ crashed)

\* C4 witness: the cyclic type A is built, and the codec of *A it embeds
\* holds the placeholder of A.
C4_Witness ==
    /\ XType("A", emptyTag) \in DOMAIN knownCodecs
    /\ knownCodecs[XType("A", emptyTag)].k = "obj"
    /\ knownCodecs[XType("A", emptyTag)].elems[1].elems[1]
          = newDeferredCodec(XType("A", emptyTag))
    /\ hist.builds[XType("A", emptyTag)] = 1

\* C5 as stated: all lookups of one key return one object.
C5_SameObjectAlways ==
    \A k \in DOMAIN hist.returned : Len(hist.returned[k]) <= 1

\* C5: lookups of one key return the key's placeholder while it is under
\* construction and one and the same object from then on; the placeholder
\* resolves to that object.
C5_CacheCoherence ==
    \A k \in DOMAIN hist.returned :
        LET r == hist.returned[k]
        IN  /\ Len(r) <= 2
            /\ Len(r) = 2 => /\ r[1] = newDeferredCodec(k)
                             /\ r[2].k # "dc"
                             /\ dcReal[k] \in {Nil, r[2]}

\* C5 witness: a key was returned first as placeholder, then as built codec.
C5_Witness ==
    \E k \in DOMAIN hist.returned :
        /\ Len(hist.returned[k]) = 2
        /\ hist.returned[k][2].k = "obj"
        /\ dcReal[k] = hist.returned[k][2]

\* does constructing the codec of key k fail
ConstructionFails(k) ==
    planOf[k].outcome = "panic" \/ planOf[k].ckind = "error"

\* C7: a failed construction is captured as an Error codec stored for the
\* key, every use of the key returns that error, and the failure shows in
\* no other way: no lookup ends in a panic out of buildCodec.
C7_ConstructionFailureCaptured ==
    /\ \A th \in Threads : ~(ret[th].end = "panic" /\ ret[th].why = "buildCodec")
    /\ \A k \in DOMAIN knownCodecs :
          (ConstructionFails(k) /\ knownCodecs[k].k \notin {"dc", "user"}) =>
              toOriginalCodec(knownCodecs[k]).ckind = "error"
    /\ \A th \in Threads :
          (IsLookup(ret[th]) /\ ret[th].end = "return" /\ ret[th].pre.k # "user"
              /\ ConstructionFails(ret[th].key)) =>
                 ret[th].result = planOf[ret[th].key].err

\* C8: a lookup of a type that had a registered codec c when the lookup
\* started yields a codec that delegates to c, at top level and as a field
\* of another type: no lookup panics on the registered entry.
C8_RegisteredCodecUsed ==
    \A th \in Threads :
        /\ IsLookup(ret[th]) => ~(ret[th].end = "panic" /\ ret[th].why = "interface conversion")
        /\ (IsLookup(ret[th]) /\ ret[th].pre.k = "user") =>
              /\ ret[th].got # Nil => toOriginalCodec(ret[th].got) = ret[th].pre
              /\ ret[th].end = "return" => ret[th].c = ret[th].pre

\* C9: registering for a permitted type the codec that is already
\* registered returns and changes nothing; registering a different codec
\* for a type that has an entry panics and leaves the entry in place.
C9_RegisterIdempotentAndGuarded ==
    \A th \in Threads :
        (ret[th].kind = "Register"
            /\ ret[th].why \notin {"prohibited kind", "prohibited primitive"}) =>
           /\ ret[th].pre = ret[th].c =>
                 (ret[th].end = "return" /\ ret[th].post = ret[th].pre)
           /\ (ret[th].pre # Nil /\ ret[th].pre # ret[th].c) =>
                 (ret[th].end = "panic" /\ ret[th].post = ret[th].pre)

\* ------------------------------------------------------------------------
\* Go values.  A string is its byte sequence, a slice is nil or a sequence,
\* an array a sequence, a pointer the empty sequence (nil) or << target >>,
\* a struct the sequence of its fields' values, skipped fields included.
\* ------------------------------------------------------------------------

NilSlice == [isnil |-> TRUE, e |-> << >>]
MkSlice(e) == [isnil |-> FALSE, e |-> e]

\* reflect.Zero / reflect.New(t).Elem()
RECURSIVE Zero(_)
Zero(t) ==
    CASE KindOf(t) = "Bool" -> FALSE
      [] KindOf(t) \in {"Int8", "Int16", "Int32", "Uint8", "Uint16", "Uint32"} -> 0
      [] KindOf(t) = "String" -> << >>
      [] KindOf(t) \in {"Slice", "Map"} -> NilSlice
      [] KindOf(t) = "Ptr" -> << >>
      [] KindOf(t) = "Array" -> [i \in 1..TypeDef(t).len |-> Zero(Elem(t))]
      [] KindOf(t) = "Struct" -> [i \in 1..NumField(t) |-> Zero(Field(t, i).type)]

\* reflect's SetInt / SetUint keep the low bits that fit the kind
SetInt(k, i) ==
    CASE k = "Int8" -> (((i % 256) + 128) % 256) - 128
      [] k = "Int16" -> (((i % 65536) + 32768) % 65536) - 32768
      [] k = "Uint8" -> i % 256
      [] k = "Uint16" -> i % 65536
      [] OTHER -> i

\* ------------------------------------------------------------------------
\* encoder: what each method writes, and the error it returns.  The sink
\* is a bytes.Buffer, whose Write does not fail.
\* ------------------------------------------------------------------------

ER(out, err) == [out |-> out, err |-> err]

EncodeInt(i) == ER(WordBytes(i), NoErr)

EncodeUnsignedInt(i) == EncodeInt(i)

\* a presence or boolean word that is 1 whatever the value
EncodeTrue(b) == EncodeInt(1)

EncodeBool(b) == EncodeInt(IF b THEN 1 ELSE 0)

\* an encoder that writes no padding
NoPadding(n) == << >>

\* pad[0:padding], padding := (4 - (len(buf) & 3)) & 3
Padding(n) == Zeros((4 - (n % 4)) % 4)

EncodeFixedOpaque(buf) == ER(buf \o Padding(Len(buf)), NoErr)

\* an encoder whose length word counts the padding
EncodeOpaquePadded(buf) ==
    ER(WordBytes(Len(buf) + Len(Padding(Len(buf)))) \o buf \o Padding(Len(buf)), NoErr)

\* a Go length is never above math.MaxUint32 in the model
EncodeOpaque(buf) ==
    ER(EncodeUnsignedInt(Len(buf)).out \o EncodeFixedOpaque(buf).out, NoErr)

\* an EncodeFixedString that writes the length first
EncodeFixedStringPrefixed(s) == ER(WordBytes(Len(s)) \o s \o Padding(Len(s)), NoErr)

EncodeFixedString(s) == ER(s \o Padding(Len(s)), NoErr)

EncodeString(s) ==
    ER(EncodeUnsignedInt(Len(s)).out \o EncodeFixedString(s).out, NoErr)

\* ------------------------------------------------------------------------
\* decoder: the source is the sequence of bytes not yet read
\* ------------------------------------------------------------------------

\* how many bytes the reader of the source gives to one Read call at most:
\* 1 for the singleByteReader of the tests, 0 for a reader that gives all
\* it is asked for
ReadChunk ==
    IF wphase \in {"received", "decoded", "decodedInto"} THEN wsrc.chunk ELSE 0

Min(a, b) == IF a < b THEN a ELSE b

\* the loop of io.ReadAtLeast(r, buf, len(buf)), n bytes read so far, each
\* Read giving at most c bytes (any number if c = 0) and EOF at the end
RECURSIVE ReadAtLeast(_, _, _, _)
ReadAtLeast(src, buf, n, c) ==
    IF n >= Len(buf) THEN [buf |-> buf, rest |-> src, err |-> NoErr]
    ELSE IF src = << >>
    THEN [buf |-> buf, rest |-> src,
          err |-> IF n = 0 THEN Err("EOF") ELSE Err("ErrUnexpectedEOF")]
    ELSE With(Min(IF c = 0 THEN Len(buf) - n ELSE Min(c, Len(buf) - n), Len(src)), LAMBDA nn :
           ReadAtLeast(SeqDrop(src, nn),
                       [i \in 1..Len(buf) |->
                          IF i > n /\ i <= n + nn THEN src[i - n] ELSE buf[i]],
                       n + nn, c))

\* io.ReadFull(d.r, buf): the bytes read overwrite the head of buf
ReadFull(src, buf) == ReadAtLeast(src, buf, 0, ReadChunk)

DR(val, rest, err) == [val |-> val, rest |-> rest, err |-> err]

DecodeUnsignedInt(src) ==
    LET r == ReadFull(src, Zeros(4)) IN DR(BytesWord(r.buf), r.rest, r.err)

DecodeInt(src) == DecodeUnsignedInt(src)

\* a decoder that takes every non-zero word for true
DecodeBoolLoose(src) ==
    LET r == DecodeUnsignedInt(src) IN DR(r.val # 0, r.rest, r.err)

DecodeBool(src) ==
    LET r == DecodeUnsignedInt(src)
    IN  CASE r.val = 0 -> DR(FALSE, r.rest, r.err)
          [] r.val = 1 -> DR(TRUE, r.rest, r.err)
          [] OTHER -> IF r.err # NoErr THEN DR(FALSE, r.rest, r.err)
                      ELSE DR(FALSE, r.rest, Err("ErrInvalidValue"))

\* the ReadFull of the body loses its error: buf[0:l] is returned with nil
DecodeOpaque(src, maxLen) ==
    LET r == DecodeUnsignedInt(src)
        l == r.val
        lPad == ((l + 3) \div 4) * 4
        body == ReadFull(r.rest, Zeros(lPad))
    IN  CASE r.err # NoErr -> DR(NilSlice, r.rest, r.err)
          [] r.err = NoErr /\ l = 0 -> DR(NilSlice, r.rest, NoErr)
          [] r.err = NoErr /\ l # 0 /\ ULess(maxLen, l) ->
               DR(NilSlice, r.rest, LengthError(l, maxLen))
          [] OTHER -> DR(MkSlice(SeqTake(body.buf, l)), body.rest, NoErr)

DecodeFixedOpaque(src, buf) ==
    LET r == ReadFull(src, buf)
        p == ReadFull(r.rest, Padding(Len(buf)))
    IN  IF r.err # NoErr THEN DR(r.buf, r.rest, r.err)
        ELSE DR(r.buf, p.rest, p.err)

DecodeString(src, maxLen) ==
    LET r == DecodeOpaque(src, maxLen)
    IN  IF r.err # NoErr THEN DR(<< >>, r.rest, r.err)
        ELSE DR(r.val.e, r.rest, NoErr)

DecodeFixedString(src, n) == DecodeFixedOpaque(src, Zeros(n))

\* ------------------------------------------------------------------------
\* The codecs at work.  A codec is named by its key; what it is made of is
\* the plan its builder left (planOf), its element codecs the plan's
\* children.  Encoding gives the bytes written and the error returned;
\* decoding takes the bytes to read and the value already at the
\* destination, and gives the value left there, the bytes not read and
\* the error.
\* ------------------------------------------------------------------------

\* one write after another: the second happens if the first returned nil
ThenE(a, b) == IF a.err # NoErr THEN a ELSE ER(a.out \o b.out, b.err)

FailE(r, combined) == ER(r.out, WithFieldError(r.err, combined))

\* the position among the codec's fields of struct field i
RECURSIVE ChildOf(_, _, _)
ChildOf(fidx, i, j) ==
    IF j > Len(fidx) THEN 0 ELSE IF fidx[j] = i THEN j ELSE ChildOf(fidx, i, j + 1)

\* a lookup of the arm that forgets the default
CaseFieldNoDefault(c, swVal) ==
    IF \E p \in c.cases : p[1] = swVal
    THEN (CHOOSE p \in c.cases : p[1] = swVal)[2]
    ELSE -1

\* caseField, exists := c.cases[swVal]; if !exists { caseField = c.defaultCase }
CaseField(c, swVal) ==
    IF \E p \in c.cases : p[1] = swVal
    THEN (CHOOSE p \in c.cases : p[1] = swVal)[2]
    ELSE c.defaultCase

\* swVal, by c.switchKind
SwVal(c, swv) == IF c.switchKind = "switchKindBool" THEN (IF swv THEN 1 ELSE 0) ELSE swv

RECURSIVE Encode(_, _), EncodeElems(_, _, _), EncodeFields(_, _, _, _)
RECURSIVE EncodePairs(_, _, _)

\* the loop of mapCodec.Encode.  A map is written as its entries
\* << key, value >> in the order MapRange yields them.
EncodePairs(c, es, i) ==
    IF i > Len(es) THEN ER(<< >>, NoErr)
    ELSE ThenE(ThenE(Encode(c.children[1], es[i][1]), Encode(c.children[2], es[i][2])),
               EncodePairs(c, es, i + 1))

\* arrayCodec.Encode and the loop of sliceCodec.Encode
EncodeElems(elem, vs, i) ==
    IF i > Len(vs) THEN ER(<< >>, NoErr)
    ELSE ThenE(Encode(elem, vs[i]), EncodeElems(elem, vs, i + 1))

\* structCodec.encodeReflect
EncodeFields(key, c, v, j) ==
    IF j > Len(c.children) THEN ER(<< >>, NoErr)
    ELSE With(Encode(c.children[j], v[c.fidx[j]]), LAMBDA r :
           IF r.err # NoErr
           THEN FailE(r, << key.type, Field(key.type, c.fidx[j]).name >>)
           ELSE ThenE(r, EncodeFields(key, c, v, j + 1)))

\* the arm of unionCodec.encodeReflect, after the switch sw was written
EncodeArm(key, c, v, sw, caseField) ==
    IF caseField = -1
    THEN ER(sw.out, WithFieldError(Err("ErrUnionSwitchArmUndefined"),
                                   << key.type, "?", "union" >>))
    ELSE With(Encode(c.children[ChildOf(c.fidx, caseField, 1)], v[caseField]), LAMBDA body :
           IF body.err # NoErr
           THEN ER(sw.out \o body.out,
                   WithFieldError(body.err,
                                  << key.type, Field(key.type, caseField).name, "union" >>))
           ELSE ThenE(sw, body))

\* unionCodec.encodeReflect
EncodeUnion(key, c, v) ==
    With(Encode(c.children[1], v[c.fidx[1]]), LAMBDA sw :
      IF sw.err # NoErr
      THEN FailE(sw, << key.type, Field(key.type, c.fidx[1]).name, "union:switch" >>)
      ELSE EncodeArm(key, c, v, sw, CaseField(c, SwVal(c, v[c.fidx[1]]))))

\* Encode of the codec c of key, by its kind
EncodeBy(key, c, k, v) ==
    CASE k = "error" -> ER(<< >>, c.err)
      [] k = "bool" -> EncodeBool(v)
      [] k \in {"int8", "int16", "int32"} -> EncodeInt(v)
      [] k \in {"uint8", "uint16", "uint32"} -> EncodeUnsignedInt(v)
      [] k = "opt" ->
           IF v = << >> THEN EncodeBool(FALSE)
           ELSE ThenE(EncodeBool(TRUE), Encode(c.children[1], v))
      [] k = "ptr" ->
           IF v = << >> THEN ER(<< >>, Err("ErrNilPointer"))
           ELSE Encode(c.children[1], v[1])
      [] k = "fixedString" ->
           IF Len(v) = c.len THEN EncodeFixedString(v)
           ELSE ER(<< >>, Err("ErrLengthIncorrect"))
      [] k = "varString" ->
           IF ULeq(Len(v), c.maxlen) THEN EncodeString(v)
           ELSE ER(<< >>, LengthError(Len(v), c.origMax))
      [] k = "opaqueArray" -> EncodeFixedOpaque(v)
      [] k = "array" -> EncodeElems(c.children[1], v, 1)
      [] k = "opaqueSlice" ->
           IF ULess(c.maxlen, Len(v.e)) THEN ER(<< >>, LengthError(Len(v.e), c.origMax))
           ELSE EncodeOpaque(v.e)
      [] k = "slice" ->
           IF ULess(c.maxlen, Len(v.e)) THEN ER(<< >>, LengthError(Len(v.e), c.origMax))
           ELSE ThenE(EncodeUnsignedInt(Len(v.e)), EncodeElems(c.children[1], v.e, 1))
      [] k = "map" ->
           IF ULess(c.maxlen, Len(v.e)) THEN ER(<< >>, LengthError(Len(v.e), c.origMax))
           ELSE ThenE(EncodeUnsignedInt(Len(v.e)), EncodePairs(c, v.e, 1))
      [] k = "struct" -> EncodeFields(key, c, v, 1)
      [] k = "union" -> EncodeUnion(key, c, v)

Encode(key, v) == EncodeBy(key, planOf[key], planOf[key].ckind, v)

\* ------------------------------------------------------------------------
\* The pointer-based path of the default build: encodeUnsafe reads the
\* value from the memory a pointer names.  Memory is little-endian bytes.
\* ------------------------------------------------------------------------

\* the bytes a field of Go kind k with value v occupies
MemOf(k, v) ==
    CASE k = "Bool" -> << IF v THEN 1 ELSE 0 >>
      [] k \in {"Int8", "Uint8"} -> << v % 256 >>
      [] k \in {"Int16", "Uint16"} -> << v % 256, (v \div 256) % 256 >>
      [] k \in {"Int32", "Uint32"} ->
           << v % 256, (v \div 256) % 256, (v \div 65536) % 256, (v \div 16777216) % 256 >>

\* a load of four bytes that takes the first for the most significant
LoadUint32BE(m) == BytesWord(m)

\* *(*uint32)(p)
LoadUint32(m) == BytesWord(<< m[4], m[3], m[2], m[1] >>)

\* *(*bool)(p)
LoadBool(m) == m[1] # 0

\* int32(*(*int8)(p)), ..., uint32(*(*uint16)(p)), *(*int32)(p), *(*uint32)(p)
LoadInt(k, m) ==
    CASE k = "Int8" -> IF m[1] >= 128 THEN m[1] - 256 ELSE m[1]
      [] k = "Uint8" -> m[1]
      [] k = "Int16" -> IF m[2] >= 128 THEN m[2] * 256 + m[1] - 65536 ELSE m[2] * 256 + m[1]
      [] k = "Uint16" -> m[2] * 256 + m[1]
      [] k \in {"Int32", "Uint32"} -> LoadUint32(m)

\* swVal of unionCodec.encodeUnsafe, read at the pointer to the switch field
SwValUnsafe(c, k, swv) ==
    IF c.switchKind = "switchKindBool"
    THEN (IF LoadBool(MemOf(k, swv)) THEN 1 ELSE 0)
    ELSE LoadUint32(MemOf(k, swv))

RECURSIVE encodeUnsafe(_, _), encodeElemsUnsafe(_, _, _), encodeFieldsUnsafe(_, _, _, _)

\* arrayCodec.encodeUnsafe and the loop of sliceCodec.encodeUnsafe
encodeElemsUnsafe(elem, vs, i) ==
    IF i > Len(vs) THEN ER(<< >>, NoErr)
    ELSE ThenE(encodeUnsafe(elem, vs[i]), encodeElemsUnsafe(elem, vs, i + 1))

\* structCodec.encodeUnsafe
encodeFieldsUnsafe(key, c, v, j) ==
    IF j > Len(c.children) THEN ER(<< >>, NoErr)
    ELSE With(encodeUnsafe(c.children[j], v[c.fidx[j]]), LAMBDA r :
           IF r.err # NoErr
           THEN FailE(r, << key.type, Field(key.type, c.fidx[j]).name >>)
           ELSE ThenE(r, encodeFieldsUnsafe(key, c, v, j + 1)))

\* the arm of unionCodec.encodeUnsafe, after the switch sw was written
encodeArmUnsafe(key, c, v, sw, caseField) ==
    IF caseField = -1
    THEN ER(sw.out, WithFieldError(Err("ErrUnionSwitchArmUndefined"),
                                   << key.type, "?", "union" >>))
    ELSE With(encodeUnsafe(c.children[ChildOf(c.fidx, caseField, 1)], v[caseField]),
              LAMBDA body :
           IF body.err # NoErr
           THEN ER(sw.out \o body.out,
                   WithFieldError(body.err,
                                  << key.type, Field(key.type, caseField).name, "union" >>))
           ELSE ThenE(sw, body))

\* unionCodec.encodeUnsafe
encodeUnionUnsafe(key, c, v) ==
    With(encodeUnsafe(c.children[1], v[c.fidx[1]]), LAMBDA sw :
      IF sw.err # NoErr
      THEN FailE(sw, << key.type, Field(key.type, c.fidx[1]).name, "union:switch" >>)
      ELSE encodeArmUnsafe(key, c, v, sw,
             CaseField(c, SwValUnsafe(c, KindOf(Field(key.type, c.fidx[1]).type),
                                      v[c.fidx[1]]))))

\* encodeUnsafe of the codec c of key, by its kind.  The string and opaque
\* codecs load the string or []byte header and go on as Encode does.
encodeUnsafeBy(key, c, k, v) ==
    CASE k = "bool" -> EncodeBool(LoadBool(MemOf("Bool", v)))
      [] k \in {"int8", "int16", "int32"} ->
           EncodeInt(LoadInt(KindOf(key.type), MemOf(KindOf(key.type), v)))
      [] k \in {"uint8", "uint16", "uint32"} ->
           EncodeUnsignedInt(LoadInt(KindOf(key.type), MemOf(KindOf(key.type), v)))
      [] k = "opt" ->
           IF v = << >> THEN EncodeBool(FALSE)
           ELSE ThenE(EncodeBool(TRUE), encodeUnsafe(c.children[1], v))
      [] k = "ptr" ->
           IF v = << >> THEN ER(<< >>, Err("ErrNilPointer"))
           ELSE encodeUnsafe(c.children[1], v[1])
      [] k \in {"fixedString", "varString", "opaqueArray", "opaqueSlice"} ->
           EncodeBy(key, c, k, v)
      [] k = "array" -> encodeElemsUnsafe(c.children[1], v, 1)
      [] k = "slice" ->
           IF ULess(c.maxlen, Len(v.e)) THEN ER(<< >>, LengthError(Len(v.e), c.origMax))
           ELSE ThenE(EncodeUnsignedInt(Len(v.e)), encodeElemsUnsafe(c.children[1], v.e, 1))
      [] k = "struct" -> encodeFieldsUnsafe(key, c, v, 1)
      [] k = "union" -> encodeUnionUnsafe(key, c, v)

encodeUnsafe(key, v) == encodeUnsafeBy(key, planOf[key], planOf[key].ckind, v)


\* the error a variable-length string codec returns: le.Max = c.origMax
WithOrigMax(err, origMax) ==
    IF err.e = "LengthError" THEN [err EXCEPT !.max = origMax] ELSE err

RECURSIVE Decode(_, _, _), DecodeElems(_, _, _, _), DecodeFields(_, _, _, _, _)
RECURSIVE DecodePairs(_, _, _, _, _)

\* v.SetMapIndex(k, vv): the entry of key k replaced, or a new entry
MapSet(es, k, vv) ==
    IF \E i \in 1..Len(es) : es[i][1] = k
    THEN [i \in 1..Len(es) |-> IF es[i][1] = k THEN << k, vv >> ELSE es[i]]
    ELSE Append(es, << k, vv >>)

\* the loop of mapCodec.Decode, n entries still to read
DecodePairs(c, t, src, es, n) ==
    IF n = 0 THEN DR(MkSlice(es), src, NoErr)
    ELSE With(Decode(c.children[1], src, Zero(Key(t))), LAMBDA k :
           IF k.err # NoErr THEN DR(MkSlice(es), k.rest, k.err)
           ELSE With(Decode(c.children[2], k.rest, Zero(Elem(t))), LAMBDA vv :
                  IF vv.err # NoErr THEN DR(MkSlice(es), vv.rest, vv.err)
                  ELSE DecodePairs(c, t, vv.rest, MapSet(es, k.val, vv.val), n - 1)))

\* arrayCodec.Decode and the loop of sliceCodec.Decode, from element i on
DecodeElems(elem, src, vs, i) ==
    IF i > Len(vs) THEN DR(vs, src, NoErr)
    ELSE With(Decode(elem, src, vs[i]), LAMBDA r :
           IF r.err # NoErr THEN DR([vs EXCEPT ![i] = r.val], r.rest, r.err)
           ELSE DecodeElems(elem, r.rest, [vs EXCEPT ![i] = r.val], i + 1))

\* structCodec.Decode, from the codec's field j on
DecodeFields(key, c, src, v, j) ==
    IF j > Len(c.children) THEN DR(v, src, NoErr)
    ELSE With(Decode(c.children[j], src, v[c.fidx[j]]), LAMBDA r :
           IF r.err # NoErr
           THEN DR([v EXCEPT ![c.fidx[j]] = r.val], r.rest,
                   WithFieldError(r.err, << key.type, Field(key.type, c.fidx[j]).name >>))
           ELSE DecodeFields(key, c, r.rest, [v EXCEPT ![c.fidx[j]] = r.val], j + 1))

\* a decode of the arm that clears the arms it does not select
DecodeArmClearing(key, c, src, v2, caseField) ==
    IF caseField = -1
    THEN DR(v2, src, WithFieldError(Err("ErrUnionSwitchArmUndefined"),
                                    << key.type, "?", "union" >>))
    ELSE With(Decode(c.children[ChildOf(c.fidx, caseField, 1)], src, v2[caseField]),
              LAMBDA body :
           DR([i \in 1..Len(v2) |->
                 IF i = caseField THEN body.val
                 ELSE IF i = c.fidx[1] THEN v2[i] ELSE Zero(Field(key.type, i).type)],
              body.rest,
              WithFieldError(body.err,
                             << key.type, Field(key.type, caseField).name, "union" >>)))

\* the arm of unionCodec.Decode, after the switch was read into v2
DecodeArm(key, c, src, v2, caseField) ==
    IF caseField = -1
    THEN DR(v2, src, WithFieldError(Err("ErrUnionSwitchArmUndefined"),
                                    << key.type, "?", "union" >>))
    ELSE With(Decode(c.children[ChildOf(c.fidx, caseField, 1)], src, v2[caseField]),
              LAMBDA body :
           DR([v2 EXCEPT ![caseField] = body.val], body.rest,
              WithFieldError(body.err,
                             << key.type, Field(key.type, caseField).name, "union" >>)))

\* unionCodec.Decode
DecodeUnion(key, c, src, v) ==
    With(Decode(c.children[1], src, v[c.fidx[1]]), LAMBDA sw :
      IF sw.err # NoErr
      THEN DR([v EXCEPT ![c.fidx[1]] = sw.val], sw.rest,
              WithFieldError(sw.err, << key.type, Field(key.type, c.fidx[1]).name,
                                        "union:switch" >>))
      ELSE DecodeArm(key, c, sw.rest, [v EXCEPT ![c.fidx[1]] = sw.val],
                     CaseField(c, SwVal(c, sw.val))))

\* sliceCodec.Decode, after the length l was read
DecodeSlice(c, t, src, v, l) ==
    IF l = 0 THEN DR(NilSlice, src, NoErr)
    ELSE IF ULess(c.maxlen, l) THEN DR(v, src, LengthError(l, c.origMax))
    ELSE With(DecodeElems(c.children[1], src, [i \in 1..l |-> Zero(Elem(t))], 1), LAMBDA es :
           DR(MkSlice(es.val), es.rest, es.err))

\* Decode of the codec c of key, by its kind
DecodeBy(key, c, k, src, v) ==
    CASE k = "error" -> DR(v, src, c.err)
      [] k = "bool" -> DecodeBool(src)
      [] k \in {"int8", "int16", "int32"} ->
           With(DecodeInt(src), LAMBDA r :
             DR(SetInt(KindOf(key.type), r.val), r.rest, r.err))
      [] k \in {"uint8", "uint16", "uint32"} ->
           With(DecodeUnsignedInt(src), LAMBDA r :
             DR(SetInt(KindOf(key.type), r.val), r.rest, r.err))
      [] k = "opt" ->
           With(DecodeBool(src), LAMBDA b :
             IF b.err # NoErr THEN DR(<< >>, b.rest, b.err)
             ELSE IF b.val THEN Decode(c.children[1], b.rest, << >>)
             ELSE DR(<< >>, b.rest, NoErr))
      [] k = "ptr" ->
           With(Decode(c.children[1], src, Zero(Elem(key.type))), LAMBDA r :
             DR(<< r.val >>, r.rest, r.err))
      [] k = "fixedString" -> DecodeFixedString(src, c.len)
      [] k = "varString" ->
           With(DecodeString(src, c.maxlen), LAMBDA r :
             DR(r.val, r.rest, WithOrigMax(r.err, c.origMax)))
      [] k = "opaqueArray" -> DecodeFixedOpaque(src, v)
      [] k = "array" -> DecodeElems(c.children[1], src, v, 1)
      [] k = "opaqueSlice" -> DecodeOpaque(src, c.maxlen)
      [] k = "slice" ->
           With(DecodeUnsignedInt(src), LAMBDA r :
             IF r.err # NoErr THEN DR(v, r.rest, r.err)
             ELSE DecodeSlice(c, key.type, r.rest, v, r.val))
      [] k = "map" ->
           With(DecodeUnsignedInt(src), LAMBDA r :
             IF r.err # NoErr THEN DR(v, r.rest, r.err)
             ELSE IF ULess(c.maxlen, r.val) THEN DR(v, r.rest, LengthError(r.val, c.origMax))
             ELSE DecodePairs(c, key.type, r.rest, << >>, r.val))
      [] k = "struct" -> DecodeFields(key, c, src, v, 1)
      [] k = "union" -> DecodeUnion(key, c, src, v)

Decode(key, src, v) == DecodeBy(key, planOf[key], planOf[key].ckind, src, v)

\* ------------------------------------------------------------------------
\* Marshal and Unmarshal.  The codec of a key is the one its builder
\* leaves in the registry (planOf); the reflect build (nounsafe) is the
\* one modelled.  The bytes given to Unmarshal come from Marshal, from a
\* connection that ended early, or from a peer.
\* ------------------------------------------------------------------------

MaxLen == 3
MaxPtrDepth == 2
MaxMapLen == 2

WireTypes ==
    {"TStr", "TOpq", "TSl", "TBigStr", "TBigOpq", "TBigSl", "TFix", "TN", "TU", "Node",
     "UStr", "UOpq", "USl", "TUD", "TMap", "TP", "TPO", "TI",
     "PanicU", "LateSw", "StrSw", "SkipSw", "BoolSw", "TLenSl", "TLenArr", "TBigFix",
     "TNest", "UNest"}

\* the type a peer without the maximum declares
Peer(t) ==
    CASE t \in {"TStr", "TBigStr"} -> "UStr"
      [] t \in {"TOpq", "TBigOpq"} -> "UOpq"
      [] t \in {"TSl", "TBigSl"} -> "USl"
      [] t = "TNest" -> "UNest"
      [] OTHER -> ""

ByteVals == {7, 200}

IntVals(k) ==
    CASE k = "Int8" -> {-1, 0, 7}
      [] k = "Int16" -> {-1, 0, 258}
      [] k = "Int32" -> {-1, 0, 5}
      [] k = "Uint8" -> ByteVals
      [] k = "Uint16" -> {0, 258}
      [] k = "Uint32" -> {0, 1, 2, 9}

SeqsUpTo(S, n) == UNION {[1..m -> S] : m \in 0..n}

\* the Go values of type t, pointers followed to depth d
RECURSIVE Values(_, _), FieldValues(_, _, _)
Values(t, d) ==
    CASE KindOf(t) = "Bool" -> BOOLEAN
      [] KindOf(t) \in {"Int8", "Int16", "Int32", "Uint8", "Uint16", "Uint32"} ->
           IntVals(KindOf(t))
      [] KindOf(t) = "String" -> SeqsUpTo(ByteVals, MaxLen)
      [] KindOf(t) = "Slice" ->
           {NilSlice} \cup {MkSlice(e) : e \in SeqsUpTo(Values(Elem(t), d), MaxLen)}
      [] KindOf(t) = "Array" -> [1..TypeDef(t).len -> Values(Elem(t), d)]
      [] KindOf(t) = "Map" ->
           {NilSlice} \cup
           {MkSlice(e) : e \in {x \in SeqsUpTo(Values(Key(t), d) \X Values(Elem(t), d),
                                              MaxMapLen) :
                                  \A i, j \in 1..Len(x) : i # j => x[i][1] # x[j][1]}}
      [] KindOf(t) = "Ptr" ->
           {<< >>} \cup (IF d = 0 THEN {} ELSE {<< x >> : x \in Values(Elem(t), d - 1)})
      [] KindOf(t) = "Struct" -> FieldValues(t, 1, d)

FieldValues(t, i, d) ==
    IF i > NumField(t) THEN {<< >>}
    ELSE {<< x >> \o r : x \in Values(Field(t, i).type, d), r \in FieldValues(t, i + 1, d)}

\* length words above a 32-bit maxInt.  A length the decoder accepts makes
\* it allocate that many bytes, so the words are those it rejects.
BigLens == IF host = "32" THEN {BigMax, BigMax + 1} ELSE {BigMax + 1}

\* the object that follows the opaque on the wire
FollowingWord == 9

Source(kind, bytes) == [kind |-> kind, bytes |-> bytes, chunk |-> 0]

\* the same bytes behind a reader that returns one byte per Read
SingleByte(s) == [s EXCEPT !.chunk = 1]

\* what Marshal wrote, alone and followed by another object, from a plain
\* reader and from a singleByteReader
OwnSources(out) ==
    With({Source("own", out), Source("followed", out \o WordBytes(FollowingWord))},
         LAMBDA plain : plain \cup {SingleByte(x) : x \in plain})

\* words a correct encoder never writes for a boolean, the second of them
\* neither for an 8-bit integer and the third neither for a 16-bit one, and
\* the types whose first two words a faulty peer replaces by them
ForgedWords == {2, 256, 65536}
ForgedTypes == {"TN", "Node", "TU", "TUD"}

\* the bytes with the word at position p replaced by w
ReplaceWord(bytes, p, w) ==
    SeqTake(bytes, 4 * (p - 1)) \o WordBytes(w) \o SeqDrop(bytes, 4 * p)

\* the types of one variable-length field without a maximum; the 32-bit
\* tests send them the length words 0x80000000 and 0xFFFFFFFF
NoMaxTypes == {"UStr", "UOpq", "USl", "TMap"}

Sources(t, v, out) ==
    (IF out.err = NoErr
     THEN OwnSources(out.out)
          \cup {Source("cut", SeqTake(out.out, n)) : n \in 0..(Len(out.out) - 1)}
     ELSE {})
    \cup (IF Peer(t) # ""
          THEN {Source("peer", Encode(XType(Peer(t), emptyTag), v).out)}
          ELSE {})
    \cup (IF t \in {"TBigStr", "TBigOpq", "TBigSl"}
          THEN {Source("header", WordBytes(l)) : l \in BigLens}
          ELSE {})
    \cup (IF host = "32" /\ t \in NoMaxTypes
          THEN {Source("header", WordBytes(l)) : l \in {BigMax, MaxUint32}}
          ELSE {})
    \cup (IF out.err = NoErr /\ t \in ForgedTypes
          THEN {Source("forged", ReplaceWord(out.out, p, w)) :
                  p \in {q \in 1..2 : 4 * q <= Len(out.out)}, w \in ForgedWords}
          ELSE {})

\* a new Coder on either platform, nothing marshalled yet
WireInit ==
    /\ host \in {"32", "64"}
    /\ nounsafe = TRUE
    /\ planOf = Plans(<< >>, RootKeys(WireTypes))
    /\ knownCodecs = << >> /\ knownBaseCodecs = << >>
    /\ dcReal = << >> /\ dcWg = << >>
    /\ pc = [th \in Threads |-> "idle"]
    /\ call = [th \in Threads |-> NoKey]
    /\ stack = [th \in Threads |-> << >>]
    /\ op = [th \in Threads |-> NoOp]
    /\ ret = [th \in Threads |-> NoRet]
    /\ cur = [th \in Threads |-> NoCur]
    /\ ops = 0
    /\ hist = [builds |-> << >>, returned |-> << >>, roots |-> {}]
    /\ crashed = FALSE
    /\ WireIdle

\* Coder.Marshal(o): the bytes of the buffer and the error of Encode
Marshal(t, v) ==
    /\ wphase = "off"
    /\ wtype' = t /\ wval' = v
    /\ IF planOf[XType(t, emptyTag)].outcome = "panic"
       THEN wout' = << >> /\ wphase' = "panicked"
       ELSE wout' = Encode(XType(t, emptyTag), v) /\ wphase' = "encoded"
    /\ UNCHANGED << host, nounsafe, planOf, rvars, wsrc, wdec, wdst, strm, tagp, encp >>

\* the keys of the codecs a codec reaches through its children
RECURSIVE Reach(_, _)
Reach(done, todo) ==
    IF todo = {} THEN done
    ELSE Reach(done \cup todo,
               UNION {SeqToSet(planOf[k].children) : k \in todo} \ (done \cup todo))

\* the types whose codecs all have an encodeUnsafe in the sources at hand:
\* no map codec and no error codec among them, and a construction that
\* does not panic
PtrTypes ==
    {t \in WireTypes :
        /\ planOf[XType(t, emptyTag)].outcome # "panic"
        /\ \A k \in Reach({}, {XType(t, emptyTag)}) : planOf[k].ckind \notin {"map", "error"}}

\* Coder.Marshal(&o) in the default build: ptrCodec.Encode hands the
\* pointer to encodeUnsafe of the codec of o's type
MarshalPtr(t, v) ==
    /\ wphase = "off"
    /\ t \in PtrTypes
    /\ wtype' = t /\ wval' = v
    /\ wout' = encodeUnsafe(XType(t, emptyTag), v) /\ wphase' = "encodedPtr"
    /\ UNCHANGED << host, nounsafe, planOf, rvars, wsrc, wdec, wdst, strm, tagp, encp >>

\* the bytes that reach the decoding side
Receive ==
    /\ wphase = "encoded"
    /\ \E s \in Sources(wtype, wval, wout) : wsrc' = s
    /\ wphase' = "received"
    /\ UNCHANGED << host, nounsafe, planOf, rvars, wtype, wval, wout, wdec, wdst, strm, tagp, encp >>

\* Coder.Unmarshal(buf, new(T)): the value left at the pointer and the error
Unmarshal ==
    /\ wphase = "received"
    /\ wdst' = Zero(wtype)
    /\ wdec' = Decode(XType(wtype, emptyTag), wsrc.bytes, Zero(wtype))
    /\ wphase' = "decoded"
    /\ UNCHANGED << host, nounsafe, planOf, rvars, wtype, wval, wout, wsrc, strm, tagp, encp >>

\* values with every field set, as a destination used before holds them
Filled(t) ==
    CASE t = "TU" -> {<< 9, 7, << 5 >>, << 7, 200 >> >>}
      [] t = "TN" -> {<< TRUE, 7, 7 >>}
      [] t = "TUD" -> {<< 5, 7, 7, 258 >>, << 0, -1, -1, 258 >>}
      [] OTHER -> {}

\* Coder.Unmarshal(buf, &dst), dst a variable that already holds a value
UnmarshalInto(dst) ==
    /\ wphase = "received"
    /\ wdst' = dst
    /\ wdec' = Decode(XType(wtype, emptyTag), wsrc.bytes, dst)
    /\ wphase' = "decodedInto"
    /\ UNCHANGED << host, nounsafe, planOf, rvars, wtype, wval, wout, wsrc, strm, tagp, encp >>

WireNext ==
    \/ \E t \in WireTypes : \E v \in Values(t, MaxPtrDepth) : Marshal(t, v)
    \/ \E t \in WireTypes : \E v \in Values(t, MaxPtrDepth) : MarshalPtr(t, v)
    \/ Receive
    \/ Unmarshal
    \/ \E dst \in Filled(wtype) : UnmarshalInto(dst)

WireSpec == WireInit /\ [][WireNext]_vars

\* ------------------------------------------------------------------------
\* Properties of Marshal and Unmarshal
\* ------------------------------------------------------------------------

\* Unmarshal has run on exactly the bytes Marshal returned without error
RoundTripped == wphase = "decoded" /\ wsrc.kind = "own"

\* what of a value its codec puts on the wire: the value with the fields
\* that have no codec and the arms the discriminant does not select at
\* their zero, and with empty sequences nil
RECURSIVE Sent(_, _)
Sent(key, v) ==
    LET c == planOf[key]
        k == c.ckind
        t == key.type
        sel == IF k = "union" THEN {c.fidx[1], CaseField(c, SwVal(c, v[c.fidx[1]]))}
               ELSE SeqToSet(c.fidx)
    IN  CASE k = "opt" -> IF v = << >> THEN v ELSE Sent(c.children[1], v)
          [] k = "ptr" -> IF v = << >> THEN v ELSE << Sent(c.children[1], v[1]) >>
          [] k = "array" -> [i \in 1..Len(v) |-> Sent(c.children[1], v[i])]
          [] k = "map" -> MkSlice(v.e)
          [] k = "opaqueSlice" -> IF v.e = << >> THEN NilSlice ELSE v
          [] k = "slice" ->
               IF v.e = << >> THEN NilSlice
               ELSE MkSlice([i \in 1..Len(v.e) |-> Sent(c.children[1], v.e[i])])
          [] k \in {"struct", "union"} ->
               [i \in 1..NumField(t) |->
                  IF i \in sel THEN Sent(c.children[ChildOf(c.fidx, i, 1)], v[i])
                  ELSE Zero(Field(t, i).type)]
          [] OTHER -> v

\* C1 (as stated): decoding the bytes produced by encoding V under the same
\* schema succeeds and yields a value equal to V.
C1_RoundTripEqual ==
    RoundTripped => (wdec.err = NoErr /\ wdec.val = wval)

\* C1 (amended): decoding the bytes produced by encoding V under the same
\* schema into a fresh destination succeeds, consumes all the bytes, and
\* yields V as far as the schema transmits it: fields tagged `-` and union
\* arms the discriminant does not select come back zero, and an empty
\* sequence comes back nil.
C1_RoundTripSent ==
    RoundTripped =>
        /\ wdec.err = NoErr
        /\ wdec.rest = << >>
        /\ wdec.val = Sent(XType(wtype, emptyTag), wval)

\* C1 witness: a struct with a non-zero skipped field has made the round trip
C1_Witness ==
    /\ RoundTripped /\ wtype = "TN" /\ wval[2] # 0 /\ wval[3] # 0
    /\ wdec.val # wval

\* C6: a source that ends before the decoder has what it asks for makes
\* the decode fail with the read error, wherever in the value it ends.
C6_ReadErrorsSurfaced ==
    (wphase = "decoded" /\ wsrc.kind = "cut") =>
        wdec.err.e \in {"EOF", "ErrUnexpectedEOF"}

\* the types of one field with a maxlen tag, and the N of the tag
MaxLenTypes == {"TStr", "TOpq", "TSl", "TBigStr", "TBigOpq", "TBigSl"}
DeclaredMax(t) == Field(t, 1).text[1].n

\* the length of the value's one field, and the length word of the source
SuppliedLen(t, v) == IF KindOf(Field(t, 1).type) = "String" THEN Len(v[1]) ELSE Len(v[1].e)
ReceivedLen(src) == BytesWord(SeqTake(src.bytes, 4))

\* encoding a value longer than N fails with LengthExceedsMax, and one of
\* length up to N succeeds
MaxLenOnEncode ==
    (wphase # "off" /\ wtype \in MaxLenTypes) =>
        IF ULess(DeclaredMax(wtype), SuppliedLen(wtype, wval))
        THEN ErrIs(wout.err, "ErrLengthExceedsMax")
        ELSE wout.err = NoErr

\* a decode of a source that begins with a whole length word
DecodedWithLength ==
    /\ wphase = "decoded" /\ wtype \in MaxLenTypes
    /\ wsrc.kind \in {"own", "peer", "header"}

\* C10 (as stated): with maxlen:N, encoding a value longer than N and
\* decoding a length word greater than N fail with an error matching
\* LengthExceedsMax; lengths up to and including N succeed.
C10_MaxLenEnforced ==
    /\ MaxLenOnEncode
    /\ DecodedWithLength =>
         IF ULess(DeclaredMax(wtype), ReceivedLen(wsrc))
         THEN ErrIs(wdec.err, "ErrLengthExceedsMax")
         ELSE /\ wdec.err.e # "LengthError"
              /\ wsrc.kind \in {"own", "peer"} => wdec.err = NoErr

\* C10 (amended): with maxlen:N, encoding a value longer than N and
\* decoding a length word greater than N fail with an error matching
\* LengthExceedsMax; lengths up to and including N succeed unless the
\* received length is above the platform's maxInt, which on a 32-bit
\* platform fails with an error matching LengthExceedsPlatformLimit.
C10_MaxLenEnforcedWithinPlatform ==
    /\ MaxLenOnEncode
    /\ DecodedWithLength =>
         CASE ULess(DeclaredMax(wtype), ReceivedLen(wsrc)) ->
                ErrIs(wdec.err, "ErrLengthExceedsMax")
           [] ~ULess(DeclaredMax(wtype), ReceivedLen(wsrc))
                /\ ExceedsMaxInt(ReceivedLen(wsrc)) ->
                ErrIs(wdec.err, "ErrLengthExceedsPlatformLimit")
           [] OTHER ->
                /\ wdec.err.e # "LengthError"
                /\ wsrc.kind \in {"own", "peer"} => wdec.err = NoErr

\* C10 witness: a string one longer than its maxlen, sent by a peer, has
\* been refused on decode, as it was on encode
C10_Witness ==
    /\ DecodedWithLength /\ wtype = "TStr" /\ wsrc.kind = "peer"
    /\ Len(wval[1]) = DeclaredMax("TStr") + 1
    /\ ErrIs(wout.err, "ErrLengthExceedsMax")
    /\ ErrIs(wdec.err, "ErrLengthExceedsMax")

\* ------------------------------------------------------------------------
\* Booleans and presence words on the wire
\* ------------------------------------------------------------------------

\* the n-th 4-byte word of a source, and whether the source holds it whole
WordAt(bytes, n) == BytesWord(SubSeq(bytes, 4 * n - 3, 4 * n))
HasWord(bytes, n) == Len(bytes) >= 4 * n

\* a decode of struct{B bool; ...} whose source holds the word of B
BoolDecoded == wphase = "decoded" /\ wtype = "TN" /\ HasWord(wsrc.bytes, 1)

\* a decode of a list node whose source holds the presence word of Next
PresenceDecoded == wphase = "decoded" /\ wtype = "Node" /\ HasWord(wsrc.bytes, 2)

\* C11: a boolean word, or the presence word of an Opt value, that is
\* neither 0 nor 1 makes the decode fail with InvalidValue; 0 decodes to
\* false / absent and 1 to true / present.
C11_BoolWordsChecked ==
    /\ BoolDecoded =>
          CASE WordAt(wsrc.bytes, 1) = 0 ->
                 wdec.val[1] = FALSE /\ ~ErrIs(wdec.err, "ErrInvalidValue")
            [] WordAt(wsrc.bytes, 1) = 1 ->
                 wdec.val[1] = TRUE /\ ~ErrIs(wdec.err, "ErrInvalidValue")
            [] OTHER -> ErrIs(wdec.err, "ErrInvalidValue")
    /\ PresenceDecoded =>
          CASE WordAt(wsrc.bytes, 2) = 0 -> wdec.val[2] = << >> /\ wdec.err = NoErr
            [] WordAt(wsrc.bytes, 2) = 1 -> wdec.val[2] # << >>
            [] OTHER -> ErrIs(wdec.err, "ErrInvalidValue")

\* C11 witness: a presence word of 2 has been refused with InvalidValue
C11_Witness ==
    /\ PresenceDecoded /\ wsrc.kind = "forged" /\ WordAt(wsrc.bytes, 2) = 2
    /\ ErrIs(wdec.err, "ErrInvalidValue")

\* ------------------------------------------------------------------------
\* Unions
\* ------------------------------------------------------------------------

UnionTypes == {"TU", "TUD"}

\* the arm the declaration of union t gives discriminant sw: the field whose
\* case list holds sw, else the field tagged union:default, else 0
ListedArms(t, sw) ==
    {i \in 2..NumField(t) : /\ Field(t, i).text[1].tok = "union:vals"
                            /\ \E j \in 1..Len(Field(t, i).text[1].vals) :
                                  Field(t, i).text[1].vals[j] = sw}
DefaultArms(t) == {i \in 2..NumField(t) : Field(t, i).text[1].tok = "union:default"}
DeclaredArm(t, sw) ==
    IF ListedArms(t, sw) # {} THEN CHOOSE i \in ListedArms(t, sw) : TRUE
    ELSE IF DefaultArms(t) # {} THEN CHOOSE i \in DefaultArms(t) : TRUE
    ELSE 0

\* the codec key of arm i of union t
ArmKey(t, i) ==
    planOf[XType(t, emptyTag)].children[ChildOf(planOf[XType(t, emptyTag)].fidx, i, 1)]

\* Marshal of a union: the discriminant word, then the selected arm alone
UnionEncoded(t, v, out, arm) ==
    IF arm = 0 THEN ErrIs(out.err, "ErrUnionSwitchArmUndefined")
    ELSE /\ out.out = WordBytes(v[1]) \o Encode(ArmKey(t, arm), v[arm]).out
         /\ out.err.e = Encode(ArmKey(t, arm), v[arm]).err.e

\* Unmarshal of a union from bytes that hold the discriminant word
UnionDecoded(t, bytes, dec, arm) ==
    IF arm = 0 THEN ErrIs(dec.err, "ErrUnionSwitchArmUndefined")
    ELSE /\ dec.val[1] = WordAt(bytes, 1)
         /\ dec.val[arm] = Decode(ArmKey(t, arm), SeqDrop(bytes, 4), Zero(Field(t, arm).type)).val
         /\ dec.err.e = Decode(ArmKey(t, arm), SeqDrop(bytes, 4), Zero(Field(t, arm).type)).err.e

\* C12: the arm of a union is the one whose case list holds the
\* discriminant, else the default arm if one is declared; when there is
\* neither, encode and decode fail with UnionSwitchArmUndefined.
C12_ArmSelectedByDiscriminant ==
    /\ (wphase # "off" /\ wtype \in UnionTypes) =>
          UnionEncoded(wtype, wval, wout, DeclaredArm(wtype, wval[1]))
    /\ (wphase = "decoded" /\ wtype \in UnionTypes /\ HasWord(wsrc.bytes, 1)) =>
          UnionDecoded(wtype, wsrc.bytes, wdec, DeclaredArm(wtype, WordAt(wsrc.bytes, 1)))

\* C12 witness: a union without a default arm has been decoded from a
\* discriminant that no arm lists, and refused
C12_Witness ==
    /\ wphase = "decoded" /\ wtype = "TU" /\ HasWord(wsrc.bytes, 1)
    /\ DeclaredArm("TU", WordAt(wsrc.bytes, 1)) = 0
    /\ ErrIs(wdec.err, "ErrUnionSwitchArmUndefined")

\* a decode of a union into a destination that held a value
UnionDecodedInto == wphase = "decodedInto" /\ wtype \in UnionTypes

\* the arm a decode of the bytes selects, 0 if it selects none
SelectedArm(t, bytes) == IF HasWord(bytes, 1) THEN DeclaredArm(t, WordAt(bytes, 1)) ELSE 0

\* C13: decoding a union changes only the switch field and the arm the
\* decoded discriminant selects; every other arm and every field tagged
\* `-` keeps the value the destination had.
C13_OtherArmsKept ==
    UnionDecodedInto =>
        \A i \in 2..NumField(wtype) :
            i # SelectedArm(wtype, wsrc.bytes) => wdec.val[i] = wdst[i]

\* C13 witness: a decode into a union whose fields were all set has
\* succeeded, changed the selected arm and left another arm and the
\* skipped field as they were
C13_Witness ==
    /\ UnionDecodedInto /\ wtype = "TUD" /\ wdec.err = NoErr
    /\ SelectedArm("TUD", wsrc.bytes) = 4
    /\ wdec.val[4] # wdst[4]
    /\ wdec.val[2] = wdst[2] /\ wdst[2] # 0
    /\ wdec.val[3] = wdst[3] /\ wdst[3] # 0

\* ------------------------------------------------------------------------
\* The layout of the bytes Marshal returns
\* ------------------------------------------------------------------------

\* Marshal has returned without error
Encoded == wphase \notin {"off", "panicked"} /\ wout.err = NoErr

\* structs of one variable-length string, and of one variable-length opaque
VarStringTypes == {"TStr", "UStr", "TBigStr"}
VarOpaqueTypes == {"TOpq", "UOpq", "TBigOpq"}

\* the bytes of the body of such a value
BodyOf(t, v) == IF t \in VarStringTypes THEN v[1] ELSE v[1].e

\* the bytes from position from on are the body followed by exactly
\* ((-n) mod 4) zero bytes, n the length of the body
PaddedBody(bytes, from, body) ==
    /\ Len(bytes) = from - 1 + Len(body) + ((0 - Len(body)) % 4)
    /\ SubSeq(bytes, from, from - 1 + Len(body)) = body
    /\ \A i \in (from + Len(body))..Len(bytes) : bytes[i] = 0

\* C14: the bytes written by a successful encode are a multiple of 4 long,
\* and the body of n bytes of a fixed or variable opaque or string is
\* followed by exactly ((-n) mod 4) zero bytes.
C14_Padding ==
    /\ Encoded => Len(wout.out) % 4 = 0
    /\ (Encoded /\ wtype \in VarStringTypes \cup VarOpaqueTypes) =>
          PaddedBody(wout.out, 5, BodyOf(wtype, wval))
    /\ (Encoded /\ wtype = "TFix") =>
          /\ PaddedBody(SeqTake(wout.out, 4), 1, wval[1])
          /\ PaddedBody(SeqDrop(wout.out, 4), 1, wval[2])

\* C14 witness: a string of three bytes has been written with its length
\* and one zero byte
C14_Witness ==
    /\ Encoded /\ wtype = "UStr" /\ Len(wval[1]) = 3
    /\ Len(wout.out) = 8 /\ wout.out[8] = 0 /\ wout.out[7] # 0

\* structs of one variable-length array of 16-bit integers, and of one map
VarArrayTypes == {"TSl", "USl", "TBigSl"}
MapTypes == {"TMap"}

\* the number of elements of such a value: bytes of a string or opaque,
\* elements of an array, entries of a map
CountOf(t, v) == IF t \in VarStringTypes THEN Len(v[1]) ELSE Len(v[1].e)

\* C15: a variable-length object is written starting with a 4-byte
\* big-endian length equal to its element count (byte count for a string
\* or opaque) before padding, never the padded or widened size: an array
\* of n 16-bit integers is the word n followed by n words.
C15_LengthPrefix ==
    /\ (Encoded /\ wtype \in VarStringTypes \cup VarOpaqueTypes \cup VarArrayTypes
                                              \cup MapTypes) =>
          SeqTake(wout.out, 4) = WordBytes(CountOf(wtype, wval))
    /\ (Encoded /\ wtype \in VarArrayTypes) =>
          /\ Len(wout.out) = 4 + 4 * CountOf(wtype, wval)
          /\ \A i \in 1..CountOf(wtype, wval) : WordAt(wout.out, i + 1) = wval[1].e[i]
    /\ (Encoded /\ wtype \in MapTypes) =>
          /\ Len(wout.out) = 4 + 8 * CountOf(wtype, wval)
          /\ \A i \in 1..CountOf(wtype, wval) :
                /\ WordAt(wout.out, 2 * i) = wval[1].e[i][1]
                /\ WordAt(wout.out, 2 * i + 1) = wval[1].e[i][2]

\* C15 witness: an array of two 16-bit integers has been written as the
\* word 2 and two words
C15_Witness ==
    /\ Encoded /\ wtype = "USl" /\ wval[1].e = << 258, 258 >>
    /\ wout.out = << 0, 0, 0, 2, 0, 0, 1, 2, 0, 0, 1, 2 >>

\* ------------------------------------------------------------------------
\* Pointers and optionals
\* ------------------------------------------------------------------------

\* Marshal has run on struct{P *int32} with or without `opt` on P
PtrMarshalled == wphase # "off" /\ wtype = "TP"
OptMarshalled == wphase # "off" /\ wtype = "TPO"

\* the bytes Marshal gives for the pointee in place of the pointer
PointeeBytes(p) == Encode(XType("TI", emptyTag), << p[1] >>).out

\* C16: a non-null pointer without `opt` is written as the bytes of its
\* pointee and no presence word; with `opt` a null pointer is the single
\* word 0 and a non-null pointer the word 1 followed by the pointee.
C16_PointerVersusOptional ==
    /\ (PtrMarshalled /\ wval[1] # << >>) =>
          wout.err = NoErr /\ wout.out = PointeeBytes(wval[1])
    /\ (OptMarshalled /\ wval[1] = << >>) =>
          wout.err = NoErr /\ wout.out = << 0, 0, 0, 0 >>
    /\ (OptMarshalled /\ wval[1] # << >>) =>
          wout.err = NoErr /\ wout.out = << 0, 0, 0, 1 >> \o PointeeBytes(wval[1])

\* C16 witness: the same non-null pointer has been written with `opt`, as
\* the word 1 and the pointee
C16_Witness ==
    /\ OptMarshalled /\ wval[1] = << 5 >>
    /\ wout.out = << 0, 0, 0, 1, 0, 0, 0, 5 >>

\* ------------------------------------------------------------------------
\* The streaming opaque reader.  strm.src is what the decoder's source
\* still holds, strm.N the LimitedReader's count, strm.got what Read and
\* WriteTo have handed to the caller, strm.body what the source held when
\* the reader was made.
\* ------------------------------------------------------------------------

MaxBody == 5
MaxBuf == 2


\* an opaque body of n bytes, and the bytes after the length word of a
\* source that holds it, its padding and the following object, less the
\* last cut bytes
BodyBytes(n) == [i \in 1..n |-> 10 + i]
StreamBody(n, cut) ==
    SeqTake(BodyBytes(n) \o Padding(n) \o WordBytes(FollowingWord),
            n + Len(Padding(n)) + 4 - cut)
Cuts == {0, 6}

\* a reader that forgets the padding
newOpaqueReaderNoPad(r, len) ==
    [phase |-> "open", src |-> r, n |-> len, N |-> len, padLen |-> 0,
     got |-> << >>, body |-> r, closed |-> FALSE, closes |-> 0, err |-> NoErr, next |-> << >>]

newOpaqueReader(r, len) ==
    [phase |-> "open", src |-> r, n |-> len, N |-> len,
     padLen |-> ((((len + 3) \div 4) * 4) - len) % 256,
     got |-> << >>, body |-> r, closed |-> FALSE, closes |-> 0, err |-> NoErr, next |-> << >>]

\* the decoder's call did not give a reader
NoReader(r, err) ==
    [phase |-> "failed", src |-> r, n |-> 0, N |-> 0, padLen |-> 0,
     got |-> << >>, body |-> r, closed |-> FALSE, closes |-> 0, err |-> err, next |-> << >>]

StreamFrame ==
    UNCHANGED << host, nounsafe, planOf, rvars, wtype, wval, wphase, wout, wsrc, wdec,
                 wdst, tagp, encp >>

\* decoder.FixedOpaqueReader(len) on a source
FixedOpaqueReader(src, len) ==
    /\ strm.phase = "off"
    /\ strm' = newOpaqueReader(src, len)
    /\ StreamFrame

\* decoder.OpaqueReader(maxLen) on a source that begins with the length
OpaqueReader(src, maxLen) ==
    /\ strm.phase = "off"
    /\ strm' = With(DecodeUnsignedInt(src), LAMBDA r :
                  IF r.err # NoErr THEN NoReader(r.rest, r.err)
                  ELSE IF ULess(maxLen, r.val)
                  THEN NoReader(r.rest, LengthError(r.val, maxLen))
                  ELSE newOpaqueReader(r.rest, r.val))
    /\ StreamFrame

\* opaqueReader.Read(p), len(p) = m: the LimitedReader asks its source for
\* at most N bytes, and the source gives k of them
Read(m, k) ==
    /\ strm.phase = "open"
    /\ IF strm.N <= 0 \/ strm.src = << >>
       THEN k = 0 /\ strm' = [strm EXCEPT !.err = Err("EOF")]
       ELSE /\ k \in 1..m /\ k <= strm.N /\ k <= Len(strm.src)
            /\ strm' = [strm EXCEPT !.got = @ \o SeqTake(strm.src, k),
                                    !.src = SeqDrop(@, k),
                                    !.N = @ - k,
                                    !.err = NoErr]
    /\ StreamFrame

\* what io.Copy reads from a LimitedReader of count N: all of it, or what
\* the source holds
Copied(src, N) == IF N <= Len(src) THEN N ELSE Len(src)

\* opaqueReader.WriteTo(w)
WriteTo ==
    /\ strm.phase = "open" /\ ~strm.closed
    /\ strm' = [strm EXCEPT !.got = @ \o SeqTake(strm.src, Copied(strm.src, strm.N)),
                            !.src = SeqDrop(@, Copied(strm.src, strm.N)),
                            !.N = @ - Copied(strm.src, strm.N),
                            !.err = NoErr]
    /\ StreamFrame

\* calls of Close on one reader in one run
MaxCloses == 2

\* opaqueReader.Close(), on a reader closed before as on an open one
Close ==
    /\ strm.phase = "open" /\ strm.closes < MaxCloses
    /\ strm' = [strm EXCEPT !.src = SeqDrop(@, Copied(strm.src, strm.N + strm.padLen)),
                            !.N = @ + strm.padLen
                                    - Copied(strm.src, strm.N + strm.padLen),
                            !.closed = TRUE,
                            !.closes = @ + 1,
                            !.err = NoErr]
    /\ StreamFrame

\* the decoder's next call, DecodeUnsignedInt, after the caller is done
\* with the reader
DecodeNext ==
    /\ strm.phase = "open"
    /\ strm' = [strm EXCEPT !.phase = "done",
                            !.next = DecodeUnsignedInt(strm.src),
                            !.src = DecodeUnsignedInt(strm.src).rest]
    /\ StreamFrame

\* a new Coder and a decoder on a source nothing was read from
StreamInit ==
    /\ host = "64"
    /\ nounsafe = FALSE
    /\ planOf = Plans(<< >>, {})
    /\ knownCodecs = << >> /\ knownBaseCodecs = << >>
    /\ dcReal = << >> /\ dcWg = << >>
    /\ pc = [th \in Threads |-> "idle"]
    /\ call = [th \in Threads |-> NoKey]
    /\ stack = [th \in Threads |-> << >>]
    /\ op = [th \in Threads |-> NoOp]
    /\ ret = [th \in Threads |-> NoRet]
    /\ cur = [th \in Threads |-> NoCur]
    /\ ops = 0
    /\ hist = [builds |-> << >>, returned |-> << >>, roots |-> {}]
    /\ crashed = FALSE
    /\ WireIdle

StreamNext ==
    \/ \E n \in 0..MaxBody, cut \in Cuts : FixedOpaqueReader(StreamBody(n, cut), n)
    \/ \E n \in 0..MaxBody, cut \in Cuts, maxLen \in {2, MaxUint32} :
          OpaqueReader(WordBytes(n) \o StreamBody(n, cut), maxLen)
    \/ \E m \in 1..MaxBuf, k \in 0..MaxBuf : Read(m, k)
    \/ WriteTo
    \/ Close
    \/ DecodeNext

StreamSpec == StreamInit /\ [][StreamNext]_vars

\* a reader was handed out
Opened == strm.phase \in {"open", "done"}

\* ((n + 3) & ~3)
PaddedLen(n) == ((n + 3) \div 4) * 4

\* the bytes taken from the source since the reader was made
Consumed == Len(strm.body) - Len(strm.src)

\* C17: the sub-stream of n bytes never yields more than n bytes; once the
\* caller has read any k <= n of them and called Close, exactly
\* ((n+3) & ~3) bytes have been consumed from the source for the body, so
\* the next decode starts at the following object; without Close the
\* padding and any unread body are still unconsumed.
C17_SubStreamBoundedAndClosed ==
    /\ Opened =>
          /\ Len(strm.got) <= strm.n
          /\ strm.got = SeqTake(strm.body, Len(strm.got))
    /\ (strm.phase = "open" /\ strm.closes = 1 /\ Len(strm.body) >= PaddedLen(strm.n)) =>
          Consumed = PaddedLen(strm.n)
    /\ (strm.phase = "done" /\ strm.closes = 1 /\ Len(strm.body) >= PaddedLen(strm.n) + 4) =>
          strm.next = DR(FollowingWord, << >>, NoErr)
    /\ (strm.phase = "open" /\ ~strm.closed) => Consumed = Len(strm.got)
    /\ (strm.phase = "done" /\ ~strm.closed) =>
          strm.next = DecodeUnsignedInt(SeqDrop(strm.body, Len(strm.got)))

\* C17 witness: two of five bytes were read, Close was called, and the
\* next decode has given the following object
C17_Witness ==
    /\ strm.phase = "done" /\ strm.closes = 1 /\ strm.n = 5 /\ Len(strm.got) = 2
    /\ Consumed = 12 /\ strm.next.val = FollowingWord /\ strm.next.err = NoErr

\* ------------------------------------------------------------------------
\* Tag parsing on its own: makeStructCodec's ParseStructTag call for two
\* fields of one type, each with its own tag text.
\* ------------------------------------------------------------------------

MaxParts == 2

\* the types of the fields
TagTypes == {"string", "[]byte", "[3]byte", "[]uint16", "*int32", "map[uint8]uint16"}

\* the layer parts of the tag texts
TagParts ==
    {Tk(""), Tk("opaque"), Tk("opt"), TkN("maxlen", 2), TkN("maxlen", MaxUint32),
     TkN("len", 2)}

\* strings.Split(tag, "/") of the tag texts: never empty
TagTexts == (SeqsUpTo(TagParts, MaxParts) \ {<< >>}) \cup {<< Tk("-") >>}

TagFrame ==
    UNCHANGED << host, nounsafe, planOf, rvars, wtype, wval, wphase, wout, wsrc, wdec,
                 wdst, strm, encp >>

\* ParseStructTag(f.Type, f.Tag.Get("xdr"), &isUnion) for a first field
ParseField(t, a) ==
    /\ tagp.phase = "off"
    /\ tagp' = [phase |-> "one", t |-> t, a |-> a, ra |-> ParseStructTag(t, a, MaybeInUnion)]
    /\ TagFrame

\* the same call for another field of the same type
ParseOther(b) ==
    /\ tagp.phase = "one"
    /\ tagp' = [phase |-> "two", t |-> tagp.t, a |-> tagp.a, ra |-> tagp.ra,
                b |-> b, rb |-> ParseStructTag(tagp.t, b, NotInUnion)]
    /\ TagFrame

TagInit == StreamInit

TagNext ==
    \/ \E t \in TagTypes, a \in TagTexts : ParseField(t, a)
    \/ \E b \in TagTexts : ParseOther(b)

TagSpec == TagInit /\ [][TagNext]_vars

\* the kind of the last entry of a tag sequence that is not empty
RECURSIVE LastKind(_)
LastKind(xt) == IF Empty(NextTag(xt)) THEN Kind(xt) ELSE LastKind(NextTag(xt))

EndsInNoop(xt) == ~Empty(xt) /\ LastKind(xt) = Noop

\* both texts were parsed, without error
BothParsed == tagp.phase = "two" /\ tagp.ra.err = "" /\ tagp.rb.err = ""

\* the type that layer i of a tag on type t applies to
RECURSIVE TypeAt(_, _)
TypeAt(t, i) == IF i = 1 THEN t ELSE TypeAt(Elem(t), i - 1)

\* a text without its empty trailing layers
RECURSIVE StripEmpty(_)
StripEmpty(text) ==
    IF Len(text) > 0 /\ text[Len(text)] = Tk("")
    THEN StripEmpty(SubSeq(text, 1, Len(text) - 1))
    ELSE text

\* `opaque` written on the byte slice or byte array itself, moved to the
\* layer of its elements
OpaqueBelow(t, text) ==
    IF /\ text[Len(text)] = Tk("opaque")
       /\ KindOf(TypeAt(t, Len(text))) \in {"Array", "Slice"}
    THEN SubSeq(text, 1, Len(text) - 1) \o << Tk(""), Tk("opaque") >>
    ELSE text

\* the layers a text states, one modifier per layer of the type
Layers(t, text) == StripEmpty(OpaqueBelow(t, text))

\* the codecs built from two tags on type t are alike, layer by layer
RECURSIVE SameCodec(_, _, _)
SamePlans(pa, pb) ==
    /\ pa.outcome = "codec" /\ pa.ckind # "error"
    /\ [pa EXCEPT !.children = << >>] = [pb EXCEPT !.children = << >>]
    /\ Len(pa.children) = Len(pb.children)
    /\ \A i \in 1..Len(pa.children) :
          /\ pa.children[i].type = pb.children[i].type
          /\ SameCodec(pa.children[i].type, pa.children[i].tag, pb.children[i].tag)

SameCodec(t, xa, xb) == SamePlans(buildCodec(t, xa), buildCodec(t, xb))

\* the two texts describe the same schema: both fields are left out, or
\* both get codecs that are alike
SameSchema ==
    /\ BothParsed
    /\ \/ tagp.ra.xt = skipTag /\ tagp.rb.xt = skipTag
       \/ /\ tagp.ra.xt # skipTag /\ tagp.rb.xt # skipTag
          /\ SameCodec(tagp.t, tagp.ra.xt, tagp.rb.xt)

\* no tag sequence that ParseTag returned ends in a Noop entry
NoTrailingNoop ==
    /\ (tagp.phase \in {"one", "two"} /\ tagp.ra.err = "") => ~EndsInNoop(tagp.ra.xt)
    /\ (tagp.phase = "two" /\ tagp.rb.err = "") => ~EndsInNoop(tagp.rb.xt)

\* C18 as stated: two texts that describe the same schema for one field
\* type give byte-identical tag sequences, and no parsed tag sequence ends
\* in a Noop entry.
C18_SameSchemaSameTag ==
    /\ SameSchema => tagp.ra.xt = tagp.rb.xt
    /\ NoTrailingNoop

\* C18 as the code has it: two texts that both parse and state the same
\* layers, `opaque` on a byte slice or byte array counted as `/opaque` and
\* empty trailing layers not counted, give byte-identical tag sequences,
\* and no parsed tag sequence ends in a Noop entry.
C18_SameLayersSameTag ==
    /\ BothParsed =>
          (Layers(tagp.t, tagp.a) = Layers(tagp.t, tagp.b) => tagp.ra.xt = tagp.rb.xt)
    /\ NoTrailingNoop

\* C18 witness: `opaque` and `/opaque` on a byte slice were both parsed,
\* to the same sequence of a Noop and an Opaque entry
C18_Witness ==
    /\ BothParsed /\ tagp.t = "[]byte"
    /\ tagp.a = << Tk("opaque") >> /\ tagp.b = << Tk(""), Tk("opaque") >>
    /\ tagp.ra.xt = << Noop, Opaque >> /\ tagp.rb.xt = tagp.ra.xt

\* C18: a maximum of 0xFFFFFFFF written out and no maximum at all give the
\* same string codec, from different tag sequences
C18_ExplicitDefaultMax ==
    /\ BothParsed /\ tagp.t = "string"
    /\ tagp.a = << Tk("") >> /\ tagp.b = << TkN("maxlen", MaxUint32) >>
    /\ SameSchema /\ tagp.ra.xt # tagp.rb.xt

\* ------------------------------------------------------------------------
\* Properties of the union switch
\* ------------------------------------------------------------------------

\* field i of struct t carries `union:switch`
IsSwitch(t, i) == Field(t, i).text[1].tok = "union:switch"

\* the first field of struct t that is not tagged `-`, 0 if there is none
FirstField(t) ==
    IF \A i \in 1..NumField(t) : Field(t, i).text = << Tk("-") >> THEN 0
    ELSE CHOOSE i \in 1..NumField(t) :
           /\ Field(t, i).text # << Tk("-") >>
           /\ \A j \in 1..(i - 1) : Field(t, j).text = << Tk("-") >>

\* field i is where a switch may stand and of a type a switch may have
SwitchWellPlaced(t, i) ==
    /\ i = FirstField(t)
    /\ KindOf(Field(t, i).type) \in {"Int32", "Uint32", "Bool"}

\* Marshal of a value of a struct type was called
MarshalCalled == wphase # "off" /\ KindOf(wtype) = "Struct"

\* C19: a struct is made a union only by `union:switch` on its first
\* non-skipped field, of type int32, uint32 or bool; with `union:switch` on
\* a later field or on a field of another type the struct's codec is an
\* Error codec, whose error Marshal returns.
C19_UnionSwitchPlacement ==
    MarshalCalled =>
        /\ (/\ planOf[XType(wtype, emptyTag)].outcome = "codec"
            /\ planOf[XType(wtype, emptyTag)].ckind = "union") =>
               /\ FirstField(wtype) # 0
               /\ IsSwitch(wtype, FirstField(wtype))
               /\ SwitchWellPlaced(wtype, FirstField(wtype))
        /\ (\E i \in 1..NumField(wtype) : IsSwitch(wtype, i) /\ ~SwitchWellPlaced(wtype, i)) =>
               /\ wphase # "panicked"
               /\ planOf[XType(wtype, emptyTag)].ckind = "error"
               /\ wout.err # NoErr
               /\ wout.err = planOf[XType(wtype, emptyTag)].err

\* ------------------------------------------------------------------------
\* Properties of `len:N`
\* ------------------------------------------------------------------------

\* Marshal returned, with bytes and an error
MarshalReturned == wphase \in {"encoded", "received", "decoded", "decodedInto"}

\* the N of the `len:N` fields
FixedLen == Field("TFix", 1).text[1].n

\* Marshal of a struct whose first field is a string with `len:N`: N bytes
\* and their padding without a length prefix, or LengthIncorrect
FixedStringEncoded(rest) ==
    IF Len(wval[1]) = FixedLen
    THEN /\ wout.err = NoErr
         /\ wout.out = wval[1] \o Zeros(PaddedLen(FixedLen) - FixedLen) \o rest
    ELSE wout.err.e = "ErrLengthIncorrect"

\* the same for a slice of uint16: one word per element
FixedSliceEncoded ==
    IF Len(wval[1].e) = FixedLen
    THEN /\ wout.err = NoErr
         /\ wout.out = WordsBytes(wval[1].e)
    ELSE wout.err.e = "ErrLengthIncorrect"

C20_SliceRefused ==
    /\ MarshalReturned /\ wtype = "TLenSl" /\ Len(wval[1].e) = FixedLen
    /\ wout.err.e = "InvalidTagForTypeError"

\* ------------------------------------------------------------------------
\* Properties of lengths above the platform's maxInt
\* ------------------------------------------------------------------------

\* the maximum the schema gives the one field of t
SchemaMax(t) == IF t \in MaxLenTypes THEN DeclaredMax(t) ELSE MaxUint32

\* a decode of a variable-length field from a source that holds its length
\* word, the length above maxInt and not above the schema's maximum
PlatformLimitCase ==
    /\ wphase = "decoded" /\ wtype \in MaxLenTypes \cup NoMaxTypes
    /\ HasWord(wsrc.bytes, 1)
    /\ ExceedsMaxInt(ReceivedLen(wsrc))
    /\ ~ULess(SchemaMax(wtype), ReceivedLen(wsrc))

\* the codecs with a maximum: string, opaque, array and map
VarLenKinds == {"varString", "opaqueSlice", "slice", "map"}

\* C21: where maxInt is below 2^32-1 a schema maximum above maxInt is
\* clamped to maxInt, and a received length above maxInt and not above the
\* schema maximum fails decode with an error that matches
\* LengthExceedsPlatformLimit and does not match LengthExceedsMax, for
\* string, opaque, array and map.
C21_PlatformLimitReported ==
    /\ \A k \in DOMAIN planOf :
          (planOf[k].ckind \in VarLenKinds /\ ExceedsMaxInt(planOf[k].origMax)) =>
              planOf[k].maxlen = MaxInt32
    /\ PlatformLimitCase =>
          /\ ErrIs(wdec.err, "ErrLengthExceedsPlatformLimit")
          /\ ~ErrIs(wdec.err, "ErrLengthExceedsMax")

\* ------------------------------------------------------------------------
\* Properties of field errors
\* ------------------------------------------------------------------------

\* the error inside the FieldError, if it is one
Unwrapped(err) == [err EXCEPT !.path = << >>, !.wraps = 0]

\* the type under the pointers, slices and arrays of a field's type
RECURSIVE BaseType(_)
BaseType(t) == IF KindOf(t) \in {"Ptr", "Slice", "Array"} THEN BaseType(Elem(t)) ELSE t

\* the type of the field of struct t with the given name
FieldNamed(t, name) == Field(t, CHOOSE i \in 1..NumField(t) : Field(t, i).name = name).type

\* a path from struct t down: one part for every struct on the way, each
\* naming a field of its struct, the next part the struct of that field
RECURSIVE PathFrom(_, _)
PathFrom(t, path) ==
    /\ path # << >>
    /\ Head(path)[1] = t
    /\ \/ Head(path)[2] = "?" /\ Len(path) = 1
       \/ /\ \E i \in 1..NumField(t) : Field(t, i).name = Head(path)[2]
          /\ Len(path) > 1 => PathFrom(BaseType(FieldNamed(t, Head(path)[2])), Tail(path))

\* err is what a struct or union codec of type t returns when the codec of
\* one of its fields returned ce: the same error under a path one part longer
WrapsFieldError(err, t, ce) ==
    /\ ce # NoErr
    /\ Unwrapped(err) = Unwrapped(ce)
    /\ Tail(err.path) = ce.path
    /\ Head(err.path)[1] = t

\* the error of Marshal or Unmarshal of a struct or union, if one was returned
StructCodecOf(t) == planOf[XType(t, emptyTag)].ckind \in {"struct", "union"}
EncodeFailed == MarshalReturned /\ StructCodecOf(wtype) /\ wout.err # NoErr
DecodeFailed ==
    /\ wphase \in {"decoded", "decodedInto"} /\ StructCodecOf(wtype) /\ wdec.err # NoErr

\* the words of a source a field may start at
FieldStarts(bytes) == {4 * n : n \in 0..(Len(bytes) \div 4)}

\* C22: an error of a field of a struct or union comes back with a path of
\* one (type, field) part for every struct on the way down, it still
\* matches the error the field's codec returned, and it is one FieldError,
\* never a FieldError inside another.
C22_FieldErrorsFlatAndMatching ==
    /\ EncodeFailed =>
          /\ wout.err.wraps = 1
          /\ PathFrom(wtype, wout.err.path)
          /\ \/ /\ Unwrapped(wout.err) = Err("ErrUnionSwitchArmUndefined")
                /\ Head(wout.err.path)[2] = "?"
             \/ \E j \in 1..Len(planOf[XType(wtype, emptyTag)].children) :
                   WrapsFieldError(wout.err, wtype,
                      Encode(planOf[XType(wtype, emptyTag)].children[j],
                             wval[planOf[XType(wtype, emptyTag)].fidx[j]]).err)
    /\ DecodeFailed =>
          /\ wdec.err.wraps = 1
          /\ PathFrom(wtype, wdec.err.path)
          /\ \/ /\ Unwrapped(wdec.err) = Err("ErrUnionSwitchArmUndefined")
                /\ Head(wdec.err.path)[2] = "?"
             \/ \E j \in 1..Len(planOf[XType(wtype, emptyTag)].children),
                   p \in FieldStarts(wsrc.bytes) :
                   WrapsFieldError(wdec.err, wtype,
                      Decode(planOf[XType(wtype, emptyTag)].children[j],
                             SeqDrop(wsrc.bytes, p),
                             wdst[planOf[XType(wtype, emptyTag)].fidx[j]]).err)

\* C22 witness: a string too long for the struct inside the struct was
\* refused by Marshal and, sent by a peer, by Unmarshal, each with a path
\* of two parts around the Length error
C22_Witness ==
    /\ wphase = "decoded" /\ wtype = "TNest" /\ wsrc.kind = "peer"
    /\ wout.err.path = << << "TNest", "In" >>, << "TStr", "Str" >> >>
    /\ wdec.err.path = wout.err.path
    /\ wout.err.wraps = 1 /\ wdec.err.wraps = 1
    /\ ErrIs(wout.err, "ErrLengthExceedsMax") /\ ErrIs(wdec.err, "ErrLengthExceedsMax")

\* ------------------------------------------------------------------------
\* C23: what a successful decode takes from its source
\* ------------------------------------------------------------------------

\* Unmarshal has returned without error
DecodeSucceeded == wphase \in {"decoded", "decodedInto"} /\ wdec.err = NoErr

\* the bytes the decode took from the source
Taken == SeqTake(wsrc.bytes, Len(wsrc.bytes) - Len(wdec.rest))

\* the bytes that encoding the decoded value produces
Reencoded == Encode(XType(wtype, emptyTag), wdec.val).out

\* C23: a successful decode of a value consumes from the source exactly as
\* many bytes as encoding that value produces, no byte of following data
\* and no byte less than the object with its padding, also when the source
\* returns one byte per read call.
C23_ConsumesExactlyTheEncoding ==
    DecodeSucceeded => Len(Taken) = Len(Reencoded)

\* C23, on the sources that hold a whole encoding, alone or followed by
\* another object, read in one piece or one byte per call: the decode
\* succeeds, takes exactly the bytes Marshal wrote and leaves the rest.
C23_WholeSourcesConsumedExactly ==
    (wphase \in {"decoded", "decodedInto"} /\ wsrc.kind \in {"own", "followed"})
        => /\ wdec.err = NoErr
           /\ Taken = wout.out
           /\ wdec.rest = (IF wsrc.kind = "followed" THEN WordBytes(FollowingWord) ELSE << >>)

\* C23: a string with padding, followed by another object, decoded from a
\* source that returns one byte per read call
C23_Witness ==
    /\ DecodeSucceeded /\ wsrc.kind = "followed" /\ wsrc.chunk = 1
    /\ wtype = "UStr" /\ Len(wval[1]) % 4 # 0
    /\ wdec.rest = WordBytes(FollowingWord)

\* ------------------------------------------------------------------------
\* C24: 8- and 16-bit integers
\* ------------------------------------------------------------------------

\* a successful decode of a list node, whose V is an int8 read from the
\* first word, and of a union by its default arm, whose D is a uint16 read
\* from the second word
Int8Decoded == DecodeSucceeded /\ wtype = "Node"
Uint16Decoded == DecodeSucceeded /\ wtype = "TUD" /\ wdec.val[1] # 0

\* C24: 8- and 16-bit integers travel as a 4-byte big-endian word, and a
\* decode that succeeds has not put into an 8- or 16-bit destination a value
\* other than the one of the wire word.
C24_NarrowingValidated ==
    /\ (Encoded /\ wtype = "Node") => SeqTake(wout.out, 4) = WordBytes(wval[1])
    /\ (Encoded /\ wtype = "TUD" /\ wval[1] # 0) => SeqDrop(wout.out, 4) = WordBytes(wval[4])
    /\ Int8Decoded => wdec.val[1] = WordAt(wsrc.bytes, 1)
    /\ Uint16Decoded => wdec.val[4] = WordAt(wsrc.bytes, 2)

\* ------------------------------------------------------------------------
\* C25: structs and their skipped fields
\* ------------------------------------------------------------------------

\* Unmarshal has run on struct{B bool; Skip int8 `-`; I int8}
StructDecoded == wphase \in {"decoded", "decodedInto"} /\ wtype = "TN"

\* C25: a struct is encoded as the encodings of its fields that are not
\* tagged `-`, concatenated in declaration order, and decoded in the same
\* order; a field tagged `-` contributes no bytes and keeps the value the
\* destination held before the decode.
C25_StructIsConcatenation ==
    /\ (Encoded /\ wtype = "TN")
          => wout.out = EncodeBool(wval[1]).out \o EncodeInt(wval[3]).out
    /\ StructDecoded => wdec.val[2] = wdst[2]
    /\ (StructDecoded /\ wsrc.kind \in {"own", "followed"})
          => /\ wdec.err = NoErr
             /\ wdec.val = << wval[1], wdst[2], wval[3] >>
             /\ Taken = wout.out

\* C25: a struct whose skipped field differs from the one of the destination
\* was sent and decoded into that destination
C25_Witness ==
    /\ wphase = "decodedInto" /\ wtype = "TN" /\ wsrc.kind = "own"
    /\ wval[2] # wdst[2] /\ wdst[2] # 0
    /\ wval[1] /\ wval[3] = -1
    /\ wdec.val = << TRUE, 7, -1 >>

\* ------------------------------------------------------------------------
\* The encoder pool and the inline codec cache of an encoder
\* ------------------------------------------------------------------------

\* calls made on the pool in one run
MaxPoolOps == 6

PoolFrame ==
    UNCHANGED << host, nounsafe, planOf, rvars, wtype, wval, wphase, wout, wsrc, wdec,
                 wdst, strm, tagp >>

\* Coder.getBaseCodec(t) of the Coder cr: the package-level codec of a
\* primitive type, the registered user codec, or the codec cr built
BaseCodecOf(cr, t) ==
    IF t = "bool" THEN [owner |-> "", type |-> t, user |-> FALSE]
    ELSE [owner |-> cr, type |-> t, user |-> (t = "Ext" /\ encp.registered[cr])]

\* an encoder.reset that keeps the cache whatever the Coder
ResetKeeping(e, cr) == [e EXCEPT !.st = "used", !.cr = cr]

\* encoder.reset(cr, w)
Reset(e, cr) ==
    [e EXCEPT !.st = "used", !.cr = cr,
              !.codecCache = IF e.cr # cr THEN NewEncoder.codecCache ELSE @]

PoolStep(encs, returned, last) ==
    /\ encp.ops < MaxPoolOps
    /\ encp' = [encp EXCEPT !.encs = encs, !.returned = returned, !.last = last,
                            !.ops = @ + 1]
    /\ PoolFrame

\* Coder.newEncoder(w) of the Coder cr: encoderPool.Get, which hands out a
\* pooled encoder or a new one, and reset
newEncoder(e, cr) ==
    /\ encp.encs[e].st \in {"none", "pooled"}
    /\ PoolStep([encp.encs EXCEPT ![e] = Reset(@, cr)], encp.returned, NoServe)

\* the slots of the cache that hold the type t
SlotsOf(e, t) == {i \in 0..(CacheSize - 1) : e.codecCache[i].type_ = t}

\* encoder.EncodeValue(v), v of type t
EncodeValue(e, t) ==
    /\ encp.encs[e].st = "used"
    /\ With(encp.encs[e], LAMBDA enc :
         IF SlotsOf(enc, t) # {}
         THEN PoolStep(encp.encs, encp.returned,
                   [e |-> e, cr |-> enc.cr, type |-> t, hit |-> TRUE,
                    codec |-> enc.codecCache[CHOOSE i \in SlotsOf(enc, t) :
                                               \A j \in SlotsOf(enc, t) : i <= j].codec])
         ELSE With(BaseCodecOf(enc.cr, t), LAMBDA c :
              With((enc.codecCacheSlot + 1) % CacheSize, LAMBDA slot :
                PoolStep([encp.encs EXCEPT ![e].codecCacheSlot = slot,
                                       ![e].codecCache[slot] = [type_ |-> t, codec |-> c]],
                     encp.returned \cup {[cr |-> enc.cr, type |-> t, codec |-> c]},
                     [e |-> e, cr |-> enc.cr, type |-> t, hit |-> FALSE, codec |-> c]))))

\* encoder.release()
release(e) ==
    /\ encp.encs[e].st = "used"
    /\ PoolStep([encp.encs EXCEPT ![e].st = "pooled"], encp.returned, NoServe)

\* the garbage collector empties the pool: the encoder is gone, and the
\* next one under its name is a new one
poolCleanup(e) ==
    /\ encp.encs[e].st = "pooled"
    /\ PoolStep([encp.encs EXCEPT ![e] = NewEncoder], encp.returned, NoServe)

\* has the Coder cr built a codec for Ext already
BuiltExt(cr) ==
    [cr |-> cr, type |-> "Ext", codec |-> [owner |-> cr, type |-> "Ext", user |-> FALSE]]
        \in encp.returned

\* Coder.RegisterCodec(Ext{}, c) on the Coder cr: it panics, and registers
\* nothing, if cr holds another codec for the type
RegisterExt(cr) ==
    /\ ~encp.registered[cr]
    /\ encp.ops < MaxPoolOps
    /\ encp' = [encp EXCEPT !.registered[cr] = ~BuiltExt(cr), !.last = NoServe,
                            !.ops = @ + 1]
    /\ PoolFrame

PoolInit == StreamInit

PoolNext ==
    \/ \E e \in Encoders, cr \in Registries : newEncoder(e, cr)
    \/ \E e \in Encoders, t \in PoolTypes : EncodeValue(e, t)
    \/ \E e \in Encoders : release(e)
    \/ \E e \in Encoders : poolCleanup(e)
    \/ \E cr \in Registries : RegisterExt(cr)

PoolSpec == PoolInit /\ [][PoolNext]_vars

\* C26: whenever EncodeValue serves a type from the inline cache, the codec
\* is one the encoder's current Coder returned for that type, and, unless
\* it is a package-level codec, one that Coder owns; the cache never holds
\* a type in two slots.
C26_InlineCacheCoherent ==
    /\ encp.last.hit
          => /\ [cr |-> encp.last.cr, type |-> encp.last.type, codec |-> encp.last.codec]
                   \in encp.returned
             /\ encp.last.codec.owner \in {"", encp.last.cr}
    /\ \A e \in Encoders : \A t \in PoolTypes :
          Cardinality(SlotsOf(encp.encs[e], t)) <= 1

\* C26: an encoder that served the Coder crA and went back to the pool
\* serves crB, meets a type it had cached for crA, and later serves that
\* type from its cache
C26_Witness ==
    /\ encp.last.hit /\ encp.last.cr = "crB" /\ encp.last.type = "TN"
    /\ [cr |-> "crA", type |-> "TN", codec |-> BaseCodecOf("crA", "TN")] \in encp.returned
    /\ encp.last.codec = BaseCodecOf("crB", "TN")
    /\ encp.encs["e2"].st = "none"

\* ------------------------------------------------------------------------
\* C27: the reflection path and the pointer-based path
\* ------------------------------------------------------------------------

\* Marshal(&o) has returned
PtrEncoded == wphase = "encodedPtr"

\* C27: encoding a struct or union value through the pointer-based path
\* writes the bytes and returns the error that the reflection path writes
\* and returns for it, with the same union arm for bool, signed and
\* unsigned switch fields.
C27_PathsEquivalent ==
    PtrEncoded => wout = Encode(XType(wtype, emptyTag), wval)

\* C27: unions with a bool, a signed and an unsigned switch went through
\* the pointer-based path, by a listed arm, by the default arm and into
\* the error of a missing arm
C27_Witness ==
    /\ PtrEncoded /\ wtype = "TU" /\ wval[1] = 2 /\ wval[4] # << >>
    /\ wout.err = NoErr /\ Len(wout.out) = 12

C27_WitnessBool ==
    PtrEncoded /\ wtype = "BoolSw" /\ wval[1] /\ wout.err = NoErr

C27_WitnessDefault ==
    PtrEncoded /\ wtype = "TUD" /\ wval[1] = -1 /\ wout.err = NoErr

C27_WitnessNoArm ==
    PtrEncoded /\ wtype = "TU" /\ wval[1] = 9 /\ ErrIs(wout.err, "ErrUnionSwitchArmUndefined")

\* ------------------------------------------------------------------------
\* C28: the placeholders of the registry
\* ------------------------------------------------------------------------

\* some thread is in the construction of the key k
UnderConstruction(k) ==
    \E th \in Threads : \E i \in 1..Len(stack[th]) : stack[th][i].key = k

\* the entry of the key k is a placeholder that nothing has resolved
Unresolved(k) ==
    k \in DOMAIN knownCodecs /\ knownCodecs[k].k = "dc" /\ Get(dcReal, k) = Nil

\* C28: every placeholder installed in the registry is resolved or removed
\* when the construction of its key ends, also when it ends in a panic that
\* the caller recovers: while the process lives, the registry holds an
\* unresolved placeholder for keys under construction only, so that no
\* later encode or decode waits on one forever.
C28_PlaceholdersResolved ==
    ~crashed => \A k \in DOMAIN knownCodecs : Unresolved(k) => UnderConstruction(k)

\* C28, for the keys whose construction cannot panic: those that reach no
\* union with a switch of an unsupported kind, in a build whose lookups do
\* not panic on a registered codec
C28_ResolvedUnlessPanic ==
    ~crashed =>
        \A k \in DOMAIN knownCodecs :
            (/\ Unresolved(k)
             /\ nounsafe
             /\ \A j \in ReachableKeys({k}) : planOf[j].outcome # "panic")
                => UnderConstruction(k)

\* C28: a construction that does not panic has installed a placeholder and
\* resolved it
C28_SomeResolved ==
    \E k \in DOMAIN knownCodecs :
        /\ knownCodecs[k].k # "dc" /\ Get(dcReal, k) # Nil
        /\ ~UnderConstruction(k)


\* ------------------------------------------------------------------------
\* C29: Close on a closed reader
\* ------------------------------------------------------------------------

\* Close is called on a reader that was closed before
ClosedAgain == strm.phase = "open" /\ strm.closed /\ strm'.closes = strm.closes + 1

\* C29: Close on the streaming opaque reader is idempotent: after the first
\* Close has consumed the remaining body and the padding, a further Close
\* consumes no more bytes from the underlying source.
C29_CloseIdempotent ==
    [][ClosedAgain => strm'.src = strm.src]_vars

\* C29, for a body whose length is a multiple of four, which has no padding
C29_IdempotentWithoutPadding ==
    [][(ClosedAgain /\ strm.padLen = 0) => strm'.src = strm.src]_vars

\* C29: a reader of a body that needs padding was closed twice, with the
\* following object behind the padding, and the second Close took bytes of
\* that object
C29_SecondCloseConsumed ==
    /\ strm.phase = "open" /\ strm.closes = 2 /\ strm.padLen > 0
    /\ Len(strm.body) >= PaddedLen(strm.n) + 4
    /\ Consumed > PaddedLen(strm.n)

\* ------------------------------------------------------------------------
\* C30: what a union without an arm for its discriminant leaves in the sink
\* ------------------------------------------------------------------------

\* Marshal of a value, or of a pointer to it, has returned the error of a
\* discriminant without an arm
ArmUndefined ==
    /\ (MarshalReturned \/ PtrEncoded)
    /\ ErrIs(wout.err, "ErrUnionSwitchArmUndefined")

\* C30: a union encode that fails with UnionSwitchArmUndefined writes
\* nothing to the sink: Marshal returns no bytes with the error.
C30_NothingWrittenWithoutArm ==
    ArmUndefined => wout.out = << >>

\* C30: what the sink holds instead is the discriminant word alone
C30_DiscriminantWritten ==
    (ArmUndefined /\ wtype \in {"TU", "BoolSw"})
        => wout.out = WordBytes(IF wtype = "BoolSw" THEN (IF wval[1] THEN 1 ELSE 0)
                                ELSE wval[1])

\* C30: such an encode has happened on the pointer-based path
C30_Reached ==
    ArmUndefined /\ PtrEncoded /\ wtype = "TU" /\ wval[1] = 9 /\ Len(wout.out) = 4

====
